---- MODULE Spec2Model ----
(***************************************************************************)
(* Article analysis and scoring pipeline of the NSE news analyser          *)
(* (analyzer.py, utils.py, config.py).                                     *)
(*                                                                         *)
(* Representation.                                                         *)
(*  - A Python dict is a function whose domain is the set of its keys, so  *)
(*    that "key in d", d.get(key, default) and d.update(e) are modelled    *)
(*    as they behave.                                                      *)
(*  - A Python string that is only searched and measured (title, content,  *)
(*    description, summary) is a Text record: its length in characters,    *)
(*    its number of whitespace tokens and the set of lower-cased           *)
(*    vocabulary phrases it contains as substrings.                        *)
(*  - The sentiment estimator (TextBlob, sent_tokenize) and the company    *)
(*    table scan are functions of the text that live outside the scoring   *)
(*    code; an input carries the value they return for its text.           *)
(*  - Scores are fixed-point numbers, Unit to 1.0; polarity and            *)
(*    subjectivity are in hundredths; dates are whole days.                *)
(***************************************************************************)
EXTENDS Integers, Sequences, FiniteSets, TLC

VARIABLES
    lexicon,      \* config.INVESTMENT_KEYWORDS, the list object shared by all analyzers
    analyzers,    \* number of NewsAnalyzer objects constructed so far
    now,          \* the day datetime.now() falls on
    input,        \* analyze_article: the article being analysed (with its text oracles)
    with_table,   \* analyze_article: companies_df is not None
    pc,           \* analyze_article: position in the per-article state machine
    content,      \* analyze_article: local variable content
    analysis,     \* analyze_article: local variable analysis
    previous,     \* outcome of the previous analyze_article call on the same input
    articles,     \* batch: the list handed to batch_analyze_articles
    analyzed,     \* batch: analyzed_articles, grown one article per loop iteration
    stage,        \* batch: position in run_full_analysis steps 6 to 8
    threshold,    \* batch: min_relevance argument of the last filter call
    relevant,     \* batch: result of filter_relevant_articles
    refiltered,   \* batch: result of filtering `relevant` again
    summary,      \* batch: result of generate_summary_insights
    call,         \* a function called on its own: its name and its arguments
    result        \* what that call returned, or that it raised

vars == <<lexicon, analyzers, now, input, with_table, pc, content, analysis,
          previous, articles, analyzed, stage, threshold, relevant, refiltered,
          summary, call, result>>

call_vars == <<call, result>>

-----------------------------------------------------------------------------
(* Bounds of the model *)

MaxBatch == 3          \* longest list handed to batch_analyze_articles
MaxDay == 1            \* last day the clock reaches (days 0..MaxDay)
MaxAnalyzers == 2      \* NewsAnalyzer objects constructed at most

(* Program constants *)

\* Fixed-point denominator, 1.0: the 7 serves the /7 of the recency term, the
\* 10000 serves content_length / 1000 * 0.1
Unit == 7 * 10000

min_article_length == 100               \* ANALYSIS_CONFIG['min_article_length']

relevance_threshold == (3 * Unit) \div 10   \* ANALYSIS_CONFIG['relevance_threshold'] = 0.3

-----------------------------------------------------------------------------
(* Python dict and list helpers *)

Has(d, k) == k \in DOMAIN d

Get(d, k, default) == IF k \in DOMAIN d THEN d[k] ELSE default

\* d.update(e): keys of e overwrite keys of d
Update(d, e) == [k \in (DOMAIN d) \cup (DOMAIN e) |-> IF k \in DOMAIN e THEN e[k] ELSE d[k]]

EmptyDict == [k \in {} |-> 0]

Min(a, b) == IF a <= b THEN a ELSE b

Max(a, b) == IF a >= b THEN a ELSE b

Abs(a) == IF a < 0 THEN 0 - a ELSE a

RECURSIVE SumSeq(_)
SumSeq(s) == IF s = <<>> THEN 0 ELSE Head(s) + SumSeq(Tail(s))

\* s.extend(t)
Extend(s, t) == s \o t

\* x in list
InList(x, s) == \E i \in 1..Len(s) : s[i] = x

\* first occurrences of the elements of s, in order
RECURSIVE Distinct(_)
Distinct(s) ==
    IF s = <<>> THEN <<>>
    ELSE LET r == Distinct(SubSeq(s, 1, Len(s) - 1))
             x == s[Len(s)]
         IN  IF InList(x, r) THEN r ELSE Append(r, x)

-----------------------------------------------------------------------------
(* config.INVESTMENT_KEYWORDS and NewsAnalyzer.__init__ *)

INVESTMENT_KEYWORDS ==
    [positive |-> << "new project", "expansion", "investment", "acquisition", "merger",
                     "contract", "order", "partnership", "launch", "growth", "profit",
                     "revenue increase", "earnings beat", "dividend", "buyback",
                     "capacity expansion", "new facility", "joint venture", "collaboration",
                     "funding", "ipo", "listing", "upgraded", "outperform", "buy rating",
                     "tie-up", "agreement", "approval", "license", "patent", "innovation",
                     "technology", "digital transformation", "renewable energy", "green",
                     "sustainable", "export", "international expansion" >>,
     negative |-> << "loss", "decline", "fall", "drop", "downgrade", "sell rating",
                     "bankruptcy", "debt", "lawsuit", "fine", "penalty", "investigation",
                     "scandal", "fraud", "closure", "layoff", "restructuring", "warning",
                     "miss", "disappointing", "weak", "poor performance", "regulatory action",
                     "suspension", "delisting", "default", "impairment", "write-off" >>,
     neutral  |-> << "announcement", "statement", "results", "quarterly", "annual",
                     "meeting", "conference", "presentation", "update", "report",
                     "guidance", "outlook", "forecast", "management change", "appointment" >>]

positive_extension ==
    << "breakthrough", "milestone", "success", "achievement", "win",
       "record", "strong performance", "beat expectations", "exceed",
       "surge", "rally", "boost", "positive outlook", "optimistic",
       "upgrade", "recommend", "target price", "bull", "momentum" >>

negative_extension ==
    << "bear", "pessimistic", "concern", "worry", "risk", "threat",
       "challenge", "struggle", "disappointing", "miss estimates",
       "cut", "reduce", "lower", "below expectations", "uncertainty" >>

\* NewsAnalyzer.__init__: self.investment_keywords is the shared dict itself,
\* and the two extend calls grow its lists in place
init_keywords(lex) ==
    [positive |-> Extend(lex.positive, positive_extension),
     negative |-> Extend(lex.negative, negative_extension),
     neutral  |-> lex.neutral]

Categories == <<"positive", "negative", "neutral">>

financial_terms ==
    << "revenue", "profit", "loss", "earnings", "ebitda", "dividend",
       "market cap", "valuation", "investment", "funding", "debt",
       "cash flow", "assets", "liabilities", "equity", "roe", "roa",
       "pe ratio", "eps", "book value", "sales", "growth" >>

credible_sources == <<"economic times", "business standard", "mint", "moneycontrol">>

-----------------------------------------------------------------------------
(* Texts *)

EmptyText == [len |-> 0, words |-> 0, has |-> {}]

\* bool(s) of a string
Truthy(text) == text.len > 0

\* ' '.join(parts): one separator between consecutive parts; a phrase is
\* contained in the joined text when a part contains it
RECURSIVE Join(_)
Join(parts) ==
    IF parts = <<>> THEN EmptyText
    ELSE IF Len(parts) = 1 THEN parts[1]
    ELSE LET rest == Join(Tail(parts))
         IN  [len   |-> parts[1].len + 1 + rest.len,
              words |-> parts[1].words + rest.words,
              has   |-> parts[1].has \cup rest.has]

\* source.lower(), then "cs in source": the credible names a source name contains
SourceContains(source) ==
    CASE source = "Economic Times"        -> {"economic times"}
      [] source = "MINT MARKETS"          -> {"mint"}
      [] source = "Moneycontrol Business Standard" -> {"moneycontrol", "business standard"}
      [] OTHER                             -> {}

NoDate == [kind |-> "none", day |-> 0]

-----------------------------------------------------------------------------
(* NewsAnalyzer._extract_text_content *)

content_fields == <<"content", "description", "summary", "title">>

RECURSIVE content_parts(_, _)
content_parts(article, fields) ==
    IF fields = <<>> THEN <<>>
    ELSE LET field == Head(fields)
             rest  == content_parts(article, Tail(fields))
         IN  IF Has(article, field) /\ Truthy(article[field])
             THEN <<article[field]>> \o rest
             ELSE rest

_extract_text_content(article) == Join(content_parts(article, content_fields))

-----------------------------------------------------------------------------
(* NewsAnalyzer.analyze_sentiment *)

\* the thresholds taken as part of the labels they bound
_get_sentiment_label_inclusive(polarity) ==
    IF polarity >= 10 THEN "Positive"
    ELSE IF polarity <= -10 THEN "Negative"
    ELSE "Neutral"

_get_sentiment_label(polarity) ==
    IF polarity > 10 THEN "Positive"
    ELSE IF polarity < -10 THEN "Negative"
    ELSE "Neutral"

IsPositiveSentence(s) == s > 10

IsNegativeSentence(s) == s < -10

HasMoreThanThreeWords(sentence) == sentence.words > 3

\* the polarity of every sentence of more than 3 words, in order
RECURSIVE sentence_sentiments_of(_)
sentence_sentiments_of(sentences) ==
    IF sentences = <<>> THEN <<>>
    ELSE IF HasMoreThanThreeWords(Head(sentences))
         THEN <<Head(sentences).polarity>> \o sentence_sentiments_of(Tail(sentences))
         ELSE sentence_sentiments_of(Tail(sentences))

\* estimate is what the estimator does on the text: estimate.ok = FALSE when it
\* raises (the except branch), otherwise its polarity, subjectivity and sentences
analyze_sentiment(estimate) ==
    IF estimate.ok
    THEN LET sentence_sentiments == sentence_sentiments_of(estimate.sentences)
             positive_sentences == Len(SelectSeq(sentence_sentiments, IsPositiveSentence))
             negative_sentences == Len(SelectSeq(sentence_sentiments, IsNegativeSentence))
         IN  [sentiment_score        |-> estimate.polarity,
              sentiment_subjectivity |-> estimate.subjectivity,
              sentiment_label        |-> _get_sentiment_label(estimate.polarity),
              positive_sentences     |-> positive_sentences,
              negative_sentences     |-> negative_sentences,
              neutral_sentences      |-> Len(sentence_sentiments) - positive_sentences
                                            - negative_sentences,
              sentence_sentiments    |-> sentence_sentiments]
    ELSE [sentiment_score        |-> 0,
          sentiment_subjectivity |-> 0,
          sentiment_label        |-> "Neutral",
          error                  |-> estimate.error]

-----------------------------------------------------------------------------
(* NewsAnalyzer.extract_investment_keywords *)

\* the keywords found appended as often as the lexicon holds them
found_in_repeated(text, keywords) ==
    LET Found(keyword) == keyword \in text.has
    IN  SelectSeq(keywords, Found)

\* the keywords of one category found in the text, duplicates removed (Python
\* leaves the order of list(set(..)) open; the lists are kept in lexicon order)
found_in(text, keywords) ==
    LET Found(keyword) == keyword \in text.has
    IN  Distinct(SelectSeq(keywords, Found))

extract_investment_keywords(lex, text) ==
    LET keywords_found == [category \in DOMAIN lex |-> found_in(text, lex[category])]
        total_words    == text.words
        total_keywords == Len(keywords_found.positive) + Len(keywords_found.negative)
                            + Len(keywords_found.neutral)
    IN  [keywords_found            |-> keywords_found,
         keyword_density           |-> IF total_words > 0
                                       THEN <<total_keywords, total_words>>
                                       ELSE <<0, 1>>,
         total_investment_keywords |-> total_keywords]

-----------------------------------------------------------------------------
(* NewsAnalyzer.match_companies, after the scan of the company table *)

\* position of the first entry of s with this symbol
RECURSIVE FirstWithSymbol(_, _, _)
FirstWithSymbol(s, symbol, i) ==
    IF s[i].symbol = symbol THEN i ELSE FirstWithSymbol(s, symbol, i + 1)

\* one entry per symbol, the first candidate of the symbol whatever comes later
RECURSIVE unique_companies_first(_)
unique_companies_first(matched) ==
    IF matched = <<>> THEN <<>>
    ELSE LET before  == unique_companies_first(SubSeq(matched, 1, Len(matched) - 1))
             company == matched[Len(matched)]
         IN  IF \E i \in 1..Len(before) : before[i].symbol = company.symbol
             THEN before
             ELSE Append(before, company)

\* unique_companies: one entry per symbol, at the place of the symbol's first
\* candidate; a later candidate replaces it only with a higher confidence
RECURSIVE unique_companies(_)
unique_companies(matched) ==
    IF matched = <<>> THEN <<>>
    ELSE LET before  == unique_companies(SubSeq(matched, 1, Len(matched) - 1))
             company == matched[Len(matched)]
             known   == \E i \in 1..Len(before) : before[i].symbol = company.symbol
         IN  IF ~known THEN Append(before, company)
             ELSE LET i == FirstWithSymbol(before, company.symbol, 1)
                  IN  IF company.confidence > before[i].confidence
                      THEN [before EXCEPT ![i] = company]
                      ELSE before

\* sorted(..., key=confidence, reverse=True): descending, equal keys keep their order
RECURSIVE sorted_by_confidence(_)
sorted_by_confidence(s) ==
    IF s = <<>> THEN <<>>
    ELSE LET done == sorted_by_confidence(SubSeq(s, 1, Len(s) - 1))
             x    == s[Len(s)]
             k    == Cardinality({i \in 1..Len(done) : done[i].confidence >= x.confidence})
         IN  SubSeq(done, 1, k) \o <<x>> \o SubSeq(done, k + 1, Len(done))

\* matched is the list the scan of the table leaves (one candidate per company
\* row whose first variant in the text has confidence above 0.3)
match_companies(matched) ==
    LET sorted_companies == sorted_by_confidence(unique_companies(matched))
    IN  [matched_companies |-> SubSeq(sorted_companies, 1, Min(5, Len(sorted_companies))),
         company_count     |-> Len(sorted_companies)]

-----------------------------------------------------------------------------
(* NewsAnalyzer.extract_financial_info *)

extract_financial_info(text, numbers, percentages) ==
    LET Mentioned(term) == term \in text.has
        financial_mentions == SelectSeq(financial_terms, Mentioned)
    IN  [financial_numbers     |-> numbers,
         percentages_mentioned |-> percentages,
         financial_terms       |-> financial_mentions,
         financial_density     |-> IF Truthy(text)
                                   THEN <<Len(financial_mentions), text.words>>
                                   ELSE <<0, 1>>]

-----------------------------------------------------------------------------
(* utils.categorize_news_impact, utils.calculate_investment_score *)

\* 'Positive' given only when the positive matches outnumber the negative ones
categorize_news_impact_outnumbering(keywords_found, sentiment_score) ==
    LET positive_count == Len(Get(keywords_found, "positive", <<>>))
        negative_count == Len(Get(keywords_found, "negative", <<>>))
    IN  IF positive_count > negative_count /\ sentiment_score > 10 THEN "Highly Positive"
        ELSE IF positive_count > negative_count /\ sentiment_score > 5 THEN "Positive"
        ELSE IF negative_count > positive_count /\ sentiment_score < -10 THEN "Highly Negative"
        ELSE IF negative_count > 0 /\ sentiment_score < -5 THEN "Negative"
        ELSE "Neutral"

categorize_news_impact(keywords_found, sentiment_score) ==
    LET positive_count == Len(Get(keywords_found, "positive", <<>>))
        negative_count == Len(Get(keywords_found, "negative", <<>>))
    IN  IF positive_count > negative_count /\ sentiment_score > 10 THEN "Highly Positive"
        ELSE IF positive_count > 0 /\ sentiment_score > 5 THEN "Positive"
        ELSE IF negative_count > positive_count /\ sentiment_score < -10 THEN "Highly Negative"
        ELSE IF negative_count > 0 /\ sentiment_score < -5 THEN "Negative"
        ELSE "Neutral"

\* abs(sentiment) * 0.4, sentiment in hundredths
sentiment_weight(article_data) == (Abs(Get(article_data, "sentiment_score", 0)) * 4 * Unit) \div 1000

\* 0.1 for each keyword whatever its category
keyword_score_flat(article_data) ==
    LET keywords == Get(article_data, "keywords_found", EmptyDict)
        RECURSIVE Over(_)
        Over(categories) ==
            IF categories = <<>> THEN 0
            ELSE (IF Has(keywords, Head(categories))
                  THEN Len(keywords[Head(categories)]) * (Unit \div 10)
                  ELSE 0) + Over(Tail(categories))
    IN  Over(Categories)

\* 0.1 for each positive and negative keyword, 0.05 for each neutral one
keyword_score(article_data) ==
    LET keywords == Get(article_data, "keywords_found", EmptyDict)
        Weight(category) == IF category \in {"positive", "negative"}
                            THEN Unit \div 10 ELSE Unit \div 20
        RECURSIVE Over(_)
        Over(categories) ==
            IF categories = <<>> THEN 0
            ELSE (IF Has(keywords, Head(categories))
                  THEN Len(keywords[Head(categories)]) * Weight(Head(categories))
                  ELSE 0) + Over(Tail(categories))
    IN  Over(Categories)

\* (datetime.now() - pub_date).days
days_old(pub_date, today) == today - pub_date.day

\* max(0, (7 - days_old) / 7) * 0.2 when a publish date is there
recency_score(article_data, today) ==
    LET pub_date == Get(article_data, "published_date", NoDate)
    IN  IF pub_date.kind # "none"
        THEN (Max(0, 7 - days_old(pub_date, today)) * 2 * Unit) \div 70
        ELSE 0

\* 0.1 when the lower-cased source name contains a credible source name
source_score(article_data) ==
    IF \E i \in 1..Len(credible_sources) :
            credible_sources[i] \in SourceContains(Get(article_data, "source", ""))
    THEN Unit \div 10 ELSE 0

\* datetime.now() is naive: subtracting an offset-aware pub_date raises TypeError
calculate_investment_score_raises(article_data) ==
    Get(article_data, "published_date", NoDate).kind = "aware"

\* the sum of the four factors returned as it is, without the cap at 1.0
calculate_investment_score_unclamped(article_data, today) ==
    sentiment_weight(article_data)
      + Min(keyword_score(article_data), (3 * Unit) \div 10)
      + recency_score(article_data, today)
      + source_score(article_data)

calculate_investment_score(article_data, today) ==
    Min(sentiment_weight(article_data)
          + Min(keyword_score(article_data), (3 * Unit) \div 10)
          + recency_score(article_data, today)
          + source_score(article_data),
        Unit)

-----------------------------------------------------------------------------
(* NewsAnalyzer._calculate_relevance_score *)

\* density * 0.15, the density a pair <<count, words>>, rounded down to 1/Unit
financial_score(analysis_) ==
    LET density == Get(analysis_, "financial_density", <<0, 1>>)
    IN  (density[1] * 15 * Unit) \div (100 * density[2])

\* the sentiment weighed by 0.4, as the investment score weighs it
_calculate_relevance_score_conflated(analysis_) ==
    LET keyword_score_ == Min((Get(analysis_, "total_investment_keywords", 0) * 5 * Unit) \div 100,
                              (3 * Unit) \div 10)
        sentiment_strength == (Abs(Get(analysis_, "sentiment_score", 0)) * 40 * Unit) \div 10000
        company_score == Min((Get(analysis_, "company_count", 0) * Unit) \div 10,
                             (2 * Unit) \div 10)
        quality_score == (Min(Get(analysis_, "content_length", 0), 1000) * Unit) \div 10000
    IN  Min(keyword_score_ + sentiment_strength + company_score
              + financial_score(analysis_) + quality_score,
            Unit)

_calculate_relevance_score(analysis_) ==
    LET keyword_score_ == Min((Get(analysis_, "total_investment_keywords", 0) * 5 * Unit) \div 100,
                              (3 * Unit) \div 10)
        sentiment_strength == (Abs(Get(analysis_, "sentiment_score", 0)) * 25 * Unit) \div 10000
        company_score == Min((Get(analysis_, "company_count", 0) * Unit) \div 10,
                             (2 * Unit) \div 10)
        quality_score == (Min(Get(analysis_, "content_length", 0), 1000) * Unit) \div 10000
    IN  Min(keyword_score_ + sentiment_strength + company_score
              + financial_score(analysis_) + quality_score,
            Unit)

-----------------------------------------------------------------------------
(* NewsAnalyzer.analyze_article *)

article_id_of(article) == Get(article, "url", Get(article, "link", ""))

\* lines 58-64: the identity fields
identity(article) ==
    [article_id     |-> article_id_of(article),
     title          |-> Get(article, "title", EmptyText),
     source         |-> Get(article, "source", ""),
     published_date |-> Get(article, "published_date", NoDate),
     url            |-> article_id_of(article)]

\* line 68: not content or len(content) < min_article_length
insufficient(text) == ~Truthy(text) \/ text.len < min_article_length

rejected(analysis_) == Update(analysis_, [error |-> "Insufficient content"])

\* the extraction given up after a sentiment analysis that reports an error
signals_given_up(analysis_, inp, text, table, lex) ==
    LET a1 == Update(analysis_, [content_length |-> text.len])
        a2 == Update(a1, analyze_sentiment(inp.estimate))
        a3 == Update(a2, extract_investment_keywords(lex, text))
        a4 == IF table THEN Update(a3, match_companies(inp.matched)) ELSE a3
    IN  IF Has(a2, "error") THEN a2
        ELSE Update(a4, extract_financial_info(text, inp.numbers, inp.percentages))

\* lines 72-89: content length, sentiment, keywords, companies, financial information
signals(analysis_, inp, text, table, lex) ==
    LET a1 == Update(analysis_, [content_length |-> text.len])
        a2 == Update(a1, analyze_sentiment(inp.estimate))
        a3 == Update(a2, extract_investment_keywords(lex, text))
        a4 == IF table THEN Update(a3, match_companies(inp.matched)) ELSE a3
    IN  Update(a4, extract_financial_info(text, inp.numbers, inp.percentages))

\* lines 92-99: the derived scores
scored(analysis_, today) ==
    LET a1 == Update(analysis_, [investment_score |-> calculate_investment_score(analysis_, today)])
        a2 == Update(a1, [impact_category |->
                            categorize_news_impact(Get(a1, "keywords_found", EmptyDict),
                                                   Get(a1, "sentiment_score", 0))])
    IN  Update(a2, [relevance_score |-> _calculate_relevance_score(a2)])

\* the whole call: [raised, value]; value is the returned Analysis, or the
\* exception when the call raises
analyze_article(inp, table, lex, today) ==
    LET a0   == identity(inp.article)
        text == _extract_text_content(inp.article)
    IN  IF insufficient(text) THEN [raised |-> FALSE, value |-> rejected(a0)]
        ELSE LET a1 == signals(a0, inp, text, table, lex)
             IN  IF calculate_investment_score_raises(a1)
                 THEN [raised |-> TRUE, value |-> [error |-> "TypeError"]]
                 ELSE [raised |-> FALSE, value |-> scored(a1, today)]

-----------------------------------------------------------------------------
(* NewsAnalyzer.batch_analyze_articles *)

\* f'article_{i}'
default_article_id(i) == "article_" \o ToString(i)

\* the except branch keeping the error alone, without title and source
error_info_bare(article, i, e) ==
    [article_id |-> Get(article, "url", Get(article, "link", default_article_id(i))),
     error      |-> e.error]

\* the except branch: basic error info
error_info(article, i, e) ==
    [article_id |-> Get(article, "url", Get(article, "link", default_article_id(i))),
     error      |-> e.error,
     title      |-> Get(article, "title", EmptyText),
     source     |-> Get(article, "source", "")]

\* one iteration of the loop, i counting from 0: what is appended to analyzed_articles
batch_iteration(inp, i, table, lex, today) ==
    LET outcome == analyze_article(inp, table, lex, today)
    IN  IF outcome.raised THEN error_info(inp.article, i, outcome.value)
        ELSE outcome.value

-----------------------------------------------------------------------------
(* NewsAnalyzer.filter_relevant_articles *)

RelevanceOf(article) == Get(article, "relevance_score", 0)

\* a descending sort that puts an element before the elements of equal key
RECURSIVE sort_by_relevance_unstable(_)
sort_by_relevance_unstable(s) ==
    IF s = <<>> THEN <<>>
    ELSE LET done == sort_by_relevance_unstable(SubSeq(s, 1, Len(s) - 1))
             x    == s[Len(s)]
             k    == Cardinality({i \in 1..Len(done) : RelevanceOf(done[i]) > RelevanceOf(x)})
         IN  SubSeq(done, 1, k) \o <<x>> \o SubSeq(done, k + 1, Len(done))

\* list.sort(key=relevance, reverse=True): descending, equal keys keep their order
RECURSIVE sort_by_relevance(_)
sort_by_relevance(s) ==
    IF s = <<>> THEN <<>>
    ELSE LET done == sort_by_relevance(SubSeq(s, 1, Len(s) - 1))
             x    == s[Len(s)]
             k    == Cardinality({i \in 1..Len(done) : RelevanceOf(done[i]) >= RelevanceOf(x)})
         IN  SubSeq(done, 1, k) \o <<x>> \o SubSeq(done, k + 1, Len(done))

\* min_relevance is [none |-> TRUE] for the default argument None
effective_min_relevance(min_relevance) ==
    IF min_relevance.none THEN relevance_threshold ELSE min_relevance.value

\* the comparison with the threshold made strict
is_relevant_strict(article, min_relevance) ==
    RelevanceOf(article) > effective_min_relevance(min_relevance)

is_relevant(article, min_relevance) ==
    RelevanceOf(article) >= effective_min_relevance(min_relevance)

filter_relevant_articles(analyzed_articles, min_relevance) ==
    LET Keep(article) == is_relevant(article, min_relevance)
    IN  sort_by_relevance(SelectSeq(analyzed_articles, Keep))

-----------------------------------------------------------------------------
(* NewsAnalyzer.generate_summary_insights *)

Occurrences(x, s) == Cardinality({i \in 1..Len(s) : s[i] = x})

\* Counter(items): an entry per distinct item, in the order of first appearance
counter(items) ==
    LET keys == Distinct(items)
    IN  [i \in 1..Len(keys) |-> [item |-> keys[i], count |-> Occurrences(keys[i], items)]]

\* sorted by count, descending, equal counts keep their order
RECURSIVE sort_by_count(_)
sort_by_count(s) ==
    IF s = <<>> THEN <<>>
    ELSE LET done == sort_by_count(SubSeq(s, 1, Len(s) - 1))
             x    == s[Len(s)]
             k    == Cardinality({i \in 1..Len(done) : done[i].count >= x.count})
         IN  SubSeq(done, 1, k) \o <<x>> \o SubSeq(done, k + 1, Len(done))

\* Counter(items).most_common(n)
most_common(items, n) ==
    LET ordered == sort_by_count(counter(items))
    IN  SubSeq(ordered, 1, Min(n, Len(ordered)))

\* p / q rounded to the nearest integer, halves to even (q > 0)
RoundHalfEven(p, q) ==
    LET a    == Abs(p)
        low  == a \div q
        rest == a - low * q
        r    == IF 2 * rest > q THEN low + 1
                ELSE IF 2 * rest < q THEN low
                ELSE IF low % 2 = 0 THEN low ELSE low + 1
    IN  IF p < 0 THEN 0 - r ELSE r

\* round(np.mean(values), 3) in thousandths, the values counted in 1/scale
mean_rounded(values, scale) == RoundHalfEven(SumSeq(values) * 1000, scale * Len(values))

\* an analysis counted as free of errors as soon as it carries a relevance_score
HasNoErrorOrScored(a) == ~Has(a, "error") \/ Has(a, "relevance_score")

HasNoError(a) == ~Has(a, "error")

\* the error-marked analyses left in
valid_articles_unfiltered(analyzed_articles) == analyzed_articles

\* [a for a in analyzed_articles if 'error' not in a]
valid_articles_of(analyzed_articles) == SelectSeq(analyzed_articles, HasNoError)

\* the symbols of the matched companies of the articles, in order
RECURSIVE all_companies(_)
all_companies(valid) ==
    IF valid = <<>> THEN <<>>
    ELSE LET companies == Get(Head(valid), "matched_companies", <<>>)
         IN  [i \in 1..Len(companies) |-> companies[i].symbol] \o all_companies(Tail(valid))

\* the (keyword, category) pairs of one article, category by category
keyword_pairs(article) ==
    LET keywords == Get(article, "keywords_found", EmptyDict)
        Pairs(category) ==
            IF Has(keywords, category)
            THEN [i \in 1..Len(keywords[category]) |-> <<keywords[category][i], category>>]
            ELSE <<>>
    IN  Pairs("positive") \o Pairs("negative") \o Pairs("neutral")

RECURSIVE all_keywords(_)
all_keywords(valid) ==
    IF valid = <<>> THEN <<>>
    ELSE keyword_pairs(Head(valid)) \o all_keywords(Tail(valid))

IsHighlyRelevant(a) == RelevanceOf(a) > (6 * Unit) \div 10

generate_summary_insights(analyzed_articles) ==
    IF analyzed_articles = <<>> THEN [error |-> "No articles to analyze"]
    ELSE LET valid == valid_articles_of(analyzed_articles)
             Field(key, default) == [i \in 1..Len(valid) |-> Get(valid[i], key, default)]
         IN  IF valid = <<>> THEN [error |-> "No valid articles found"]
             ELSE [total_articles           |-> Len(analyzed_articles),
                   valid_articles           |-> Len(valid),
                   sentiment_distribution   |-> counter(Field("sentiment_label", "Neutral")),
                   impact_distribution      |-> counter(Field("impact_category", "Neutral")),
                   top_companies_mentioned  |-> most_common(all_companies(valid), 10),
                   average_sentiment_score  |-> mean_rounded(Field("sentiment_score", 0), 100),
                   average_relevance_score  |-> mean_rounded(Field("relevance_score", 0), Unit),
                   average_investment_score |-> mean_rounded(Field("investment_score", 0), Unit),
                   top_keywords             |-> most_common(all_keywords(valid), 15),
                   highly_relevant_articles |-> Len(SelectSeq(valid, IsHighlyRelevant))]

-----------------------------------------------------------------------------
(* Inputs *)

\* what the sample article of analyzer.main() contains
SampleHas == {"investment", "renewable energy", "green", "growth", "boost",
              "upgraded", "upgrade", "win"}

TitleText    == [len |-> 20,   words |-> 3,   has |-> {}]
HeadlineText == [len |-> 100,  words |-> 14,  has |-> {"results", "profit"}]
Brief78      == [len |-> 78,   words |-> 12,  has |-> {"loss"}]
Brief79      == [len |-> 79,   words |-> 12,  has |-> {"loss"}]
MidText      == [len |-> 479,  words |-> 77,  has |-> {"merger", "contract", "order"}]
LongText     == [len |-> 1500, words |-> 247, has |-> SampleHas]
Description  == [len |-> 200,  words |-> 30,  has |-> {"loss", "debt", "warning", "report"}]
SummaryText  == [len |-> 5,    words |-> 1,   has |-> {}]

Company(symbol, name, variant, confidence) ==
    [symbol |-> symbol, company_name |-> name, matched_variant |-> variant,
     confidence |-> confidence]

\* the candidates the scan of the company table leaves for a text, confidence in
\* hundredths (above 30): none, one, and seven rows two of which share a symbol
NoMatches == <<>>

OneMatch == << Company("RIL", "Reliance Industries", "Reliance Industries", 80) >>

ManyMatches ==
    << Company("RIL", "Reliance Industries", "reliance industries", 70),
       Company("TCS", "Tata Consultancy Services", "TCS", 40),
       Company("RIL", "Reliance Industries Limited", "Reliance Industries Limited", 100),
       Company("INFY", "Infosys", "Infosys", 70),
       Company("SBIN", "State Bank of India", "state bank of india", 50),
       Company("ITC", "ITC Limited", "ITC Limited", 90),
       Company("HDFC", "HDFC Bank", "hdfc bank", 40) >>

\* the text fields an article record may hold, with what the table scan and the
\* number patterns give on the combined text
FieldSets ==
    { [fields |-> EmptyDict, matched |-> NoMatches, numbers |-> <<>>, percentages |-> <<>>],
      [fields |-> [title |-> TitleText],
       matched |-> NoMatches, numbers |-> <<>>, percentages |-> <<>>],
      [fields |-> [content |-> Brief78, title |-> TitleText],
       matched |-> NoMatches, numbers |-> <<>>, percentages |-> <<>>],
      [fields |-> [content |-> Brief79, title |-> TitleText],
       matched |-> OneMatch, numbers |-> <<>>, percentages |-> <<>>],
      [fields |-> [title |-> HeadlineText, summary |-> EmptyText],
       matched |-> NoMatches, numbers |-> <<>>, percentages |-> <<12>>],
      [fields |-> [content |-> MidText, title |-> TitleText],
       matched |-> OneMatch, numbers |-> <<>>, percentages |-> <<>>],
      [fields |-> [content |-> LongText, title |-> TitleText],
       matched |-> OneMatch, numbers |-> <<75000>>, percentages |-> <<>>],
      [fields |-> [content |-> LongText, description |-> Description,
                   summary |-> SummaryText, title |-> TitleText],
       matched |-> ManyMatches, numbers |-> <<75000, 10>>, percentages |-> <<5>>] }

\* the estimator raises on the text (for one, when the tokenizer data is missing)
EstimateFails ==
    [ok |-> FALSE, error |-> "LookupError", polarity |-> 0, subjectivity |-> 0,
     sentences |-> <<>>]

\* the estimator's result: polarity and subjectivity in hundredths, and the
\* sentences with their word counts and polarities
Estimate(polarity) ==
    [ok |-> TRUE, error |-> "", polarity |-> polarity, subjectivity |-> 50,
     sentences |-> << [words |-> 12, polarity |-> polarity],
                      [words |-> 3,  polarity |-> 100],
                      [words |-> 6,  polarity |-> 0] >>]

Polarities == {-100, -6, 0, 6, 100}

Estimates == {EstimateFails} \cup {Estimate(p) : p \in Polarities}

\* published_date: the key missing, None, a naive datetime 30 days back, today
\* or 40 days ahead, and an offset-aware datetime (newspaper's publish_date)
NaiveDate(day) == [kind |-> "naive", day |-> day]

AwareDate(day) == [kind |-> "aware", day |-> day]

DateFields ==
    { EmptyDict, [published_date |-> NoDate], [published_date |-> NaiveDate(-30)],
      [published_date |-> NaiveDate(0)], [published_date |-> NaiveDate(40)],
      [published_date |-> AwareDate(0)] }

\* an RSS entry carries 'link', an extracted page carries 'url'
IdFields == { [url |-> "https://example.com/a"], [link |-> "https://example.com/rss"] }

Sources == {"Economic Times", "Stock Blog"}

MakeInput(ids, fieldset, source, date, estimate) ==
    [article     |-> Update(Update(Update(ids, fieldset.fields), [source |-> source]), date),
     estimate    |-> estimate,
     matched     |-> fieldset.matched,
     numbers     |-> fieldset.numbers,
     percentages |-> fieldset.percentages]

Inputs ==
    { MakeInput(ids, fieldset, source, date, estimate) :
        ids \in IdFields, fieldset \in FieldSets, source \in Sources,
        date \in DateFields, estimate \in Estimates }

-----------------------------------------------------------------------------
(* The analysis of one article: the state machine of analyze_article *)

NoCall == [known |-> FALSE]

\* no function has been called on its own
NoOperation == [op |-> "none"]

Returned == {"Scored", "Rejected"}

Terminal == Returned \cup {"Raised"}

BatchIdle ==
    /\ articles = <<>>
    /\ analyzed = <<>>
    /\ stage = "idle"
    /\ threshold = [none |-> TRUE]
    /\ relevant = <<>>
    /\ refiltered = <<>>
    /\ summary = EmptyDict

InitArticle ==
    /\ lexicon = init_keywords(INVESTMENT_KEYWORDS)
    /\ analyzers = 1
    /\ now = 0
    /\ input \in Inputs
    /\ with_table \in BOOLEAN
    /\ pc = "Received"
    /\ content = EmptyText
    /\ analysis = EmptyDict
    /\ previous = NoCall
    /\ BatchIdle
    /\ call = NoOperation
    /\ result = NoOperation

batch_vars == <<articles, analyzed, stage, threshold, relevant, refiltered, summary>>

article_vars == <<input, with_table, pc, content, analysis, previous>>

\* another NewsAnalyzer() is constructed between two calls
Construct ==
    /\ analyzers < MaxAnalyzers
    /\ pc \in Terminal \cup {"Received"}
    /\ lexicon' = init_keywords(lexicon)
    /\ analyzers' = analyzers + 1
    /\ UNCHANGED <<call_vars, now, article_vars, batch_vars>>

\* midnight passes
Tick ==
    /\ now < MaxDay
    /\ now' = now + 1
    /\ UNCHANGED <<call_vars, lexicon, analyzers, article_vars, batch_vars>>

\* lines 58-72
ExtractContent ==
    /\ pc = "Received"
    /\ LET text == _extract_text_content(input.article)
       IN  /\ content' = text
           /\ IF insufficient(text)
              THEN /\ analysis' = rejected(identity(input.article))
                   /\ pc' = "Rejected"
              ELSE /\ analysis' = identity(input.article)
                   /\ pc' = "ContentExtracted"
    /\ UNCHANGED <<call_vars, lexicon, analyzers, now, input, with_table, previous, batch_vars>>

\* lines 72-89
ComputeSignals ==
    /\ pc = "ContentExtracted"
    /\ analysis' = signals(analysis, input, content, with_table, lexicon)
    /\ pc' = "SignalsComputed"
    /\ UNCHANGED <<call_vars, lexicon, analyzers, now, input, with_table, content, previous, batch_vars>>

\* lines 92-101
Score ==
    /\ pc = "SignalsComputed"
    /\ IF calculate_investment_score_raises(analysis)
       THEN /\ analysis' = [error |-> "TypeError"]
            /\ pc' = "Raised"
       ELSE /\ analysis' = scored(analysis, now)
            /\ pc' = "Scored"
    /\ UNCHANGED <<call_vars, lexicon, analyzers, now, input, with_table, content, previous, batch_vars>>

\* the same article is handed to analyze_article once more
CallAgain ==
    /\ pc \in Terminal
    /\ previous' = [known |-> TRUE, pc |-> pc, value |-> analysis]
    /\ pc' = "Received"
    /\ content' = EmptyText
    /\ analysis' = EmptyDict
    /\ UNCHANGED <<call_vars, lexicon, analyzers, now, input, with_table, batch_vars>>

NextArticle == Construct \/ Tick \/ ExtractContent \/ ComputeSignals \/ Score \/ CallAgain

SpecArticle == InitArticle /\ [][NextArticle]_vars

\* the steps compose to the whole call: a step that ends the machine leaves
\* what analyze_article returns (or raises) at that moment
StepsAgreeWithCall ==
    [][pc' \in Terminal /\ pc \notin Terminal =>
        LET outcome == analyze_article(input, with_table, lexicon, now)
        IN  /\ outcome.raised = (pc' = "Raised")
            /\ outcome.value = analysis']_vars

-----------------------------------------------------------------------------
(* The batch: run_full_analysis steps 6 to 8 *)

BatchProfile(url, fieldset, date, estimate) ==
    MakeInput(url, fieldset, "Economic Times", date, estimate)

FieldSetOf(fields) == CHOOSE fieldset \in FieldSets : fieldset.fields = fields

LongArticle == FieldSetOf([content |-> LongText, title |-> TitleText])

MidArticle == FieldSetOf([content |-> MidText, title |-> TitleText])

\* the articles a batch is made of: too short; scored with polarity 1.0 and
\* -1.0 (equal relevance); two at the default threshold exactly; the estimator
\* failing; an offset-aware date, with and without a url
BatchInputs ==
    { BatchProfile([url |-> "u1"], FieldSetOf([title |-> TitleText]),
                   [published_date |-> NaiveDate(0)], Estimate(0)),
      BatchProfile([url |-> "u2"], LongArticle, [published_date |-> NaiveDate(0)], Estimate(100)),
      BatchProfile([url |-> "u3"], MidArticle, [published_date |-> NoDate], Estimate(0)),
      BatchProfile([link |-> "l4"], LongArticle, EmptyDict, Estimate(-100)),
      BatchProfile([url |-> "u5"], MidArticle, [published_date |-> NaiveDate(-30)], Estimate(0)),
      BatchProfile([url |-> "u6"], LongArticle, [published_date |-> NaiveDate(0)], EstimateFails),
      BatchProfile([url |-> "u7"], LongArticle, [published_date |-> AwareDate(0)], Estimate(100)),
      BatchProfile(EmptyDict, MidArticle, [published_date |-> AwareDate(0)], Estimate(0)) }

\* the min_relevance arguments: the default (None), 0.0 and 0.5
Thresholds == { [none |-> TRUE], [none |-> FALSE, value |-> 0],
                [none |-> FALSE, value |-> Unit \div 2] }

InitBatch ==
    /\ lexicon = init_keywords(INVESTMENT_KEYWORDS)
    /\ analyzers = 1
    /\ now = 0
    /\ input = MakeInput(EmptyDict, FieldSetOf(EmptyDict), "", EmptyDict, EstimateFails)
    /\ with_table = TRUE
    /\ pc = "Idle"
    /\ content = EmptyText
    /\ analysis = EmptyDict
    /\ previous = NoCall
    /\ BatchIdle
    /\ call = NoOperation
    /\ result = NoOperation

\* the scraper hands over one more article
Receive(inp) ==
    /\ stage = "idle"
    /\ Len(articles) < MaxBatch
    /\ articles' = Append(articles, inp)
    /\ UNCHANGED <<call_vars, lexicon, analyzers, now, article_vars, analyzed, stage, threshold,
                   relevant, refiltered, summary>>

\* batch_analyze_articles is called
StartBatch ==
    /\ stage = "idle"
    /\ stage' = "analyzing"
    /\ analyzed' = <<>>
    /\ UNCHANGED <<call_vars, lexicon, analyzers, now, article_vars, articles, threshold,
                   relevant, refiltered, summary>>

\* one iteration of the loop of batch_analyze_articles
AnalyzeNext ==
    /\ stage = "analyzing"
    /\ Len(analyzed) < Len(articles)
    /\ LET i == Len(analyzed)
       IN  analyzed' = Append(analyzed,
                              batch_iteration(articles[i + 1], i, with_table, lexicon, now))
    /\ UNCHANGED <<call_vars, lexicon, analyzers, now, article_vars, articles, stage, threshold,
                   relevant, refiltered, summary>>

\* the loop is over: return analyzed_articles
FinishBatch ==
    /\ stage = "analyzing"
    /\ Len(analyzed) = Len(articles)
    /\ stage' = "analyzed"
    /\ UNCHANGED <<call_vars, lexicon, analyzers, now, article_vars, articles, analyzed, threshold,
                   relevant, refiltered, summary>>

\* filter_relevant_articles(analyzed_articles, min_relevance)
FilterRelevant(min_relevance) ==
    /\ stage = "analyzed"
    /\ threshold' = min_relevance
    /\ relevant' = filter_relevant_articles(analyzed, min_relevance)
    /\ stage' = "filtered"
    /\ UNCHANGED <<call_vars, lexicon, analyzers, now, article_vars, articles, analyzed,
                   refiltered, summary>>

\* filter_relevant_articles on its own result, with the same min_relevance
FilterAgain ==
    /\ stage = "filtered"
    /\ refiltered' = filter_relevant_articles(relevant, threshold)
    /\ stage' = "refiltered"
    /\ UNCHANGED <<call_vars, lexicon, analyzers, now, article_vars, articles, analyzed, threshold,
                   relevant, summary>>

\* generate_summary_insights(analyzed_articles)
Summarize ==
    /\ stage \in {"filtered", "refiltered"}
    /\ summary' = generate_summary_insights(analyzed)
    /\ stage' = "summarized"
    /\ UNCHANGED <<call_vars, lexicon, analyzers, now, article_vars, articles, analyzed, threshold,
                   relevant, refiltered>>

NextBatch ==
    \/ \E inp \in BatchInputs : Receive(inp)
    \/ StartBatch
    \/ AnalyzeNext
    \/ FinishBatch
    \/ \E min_relevance \in Thresholds : FilterRelevant(min_relevance)
    \/ FilterAgain
    \/ Summarize

SpecBatch == InitBatch /\ [][NextBatch]_vars

-----------------------------------------------------------------------------
(* Python strings: "in", str.lower, str.upper, str.strip, str.split,        *)
(* str.join, str.replace. A string is a TLA+ string, read character by      *)
(* character with SubSeq.                                                    *)

Whitespace == {" ", "\t", "\n"}

UpperCase == "ABCDEFGHIJKLMNOPQRSTUVWXYZ"

LowerCase == "abcdefghijklmnopqrstuvwxyz"

CharAt(s, i) == SubSeq(s, i, i)

From(s, i) == SubSeq(s, i, Len(s))

\* t in s
Contains(s, t) == \E i \in 0..(Len(s) - Len(t)) : SubSeq(s, i + 1, i + Len(t)) = t

\* the letter at the same place of the other alphabet, any other character as it is
Recase(c, from, to) ==
    IF \E i \in 1..Len(from) : CharAt(from, i) = c
    THEN CharAt(to, CHOOSE i \in 1..Len(from) : CharAt(from, i) = c)
    ELSE c

\* s.lower(), the two halves of s one after the other
RECURSIVE lower(_)
lower(s) ==
    IF Len(s) <= 1 THEN Recase(s, UpperCase, LowerCase)
    ELSE lower(SubSeq(s, 1, Len(s) \div 2)) \o lower(From(s, Len(s) \div 2 + 1))

RECURSIVE upper(_)
upper(s) ==
    IF Len(s) <= 1 THEN Recase(s, LowerCase, UpperCase)
    ELSE upper(SubSeq(s, 1, Len(s) \div 2)) \o upper(From(s, Len(s) \div 2 + 1))

RECURSIVE strip(_)
strip(s) ==
    IF s = "" THEN ""
    ELSE IF CharAt(s, 1) \in Whitespace THEN strip(From(s, 2))
    ELSE IF CharAt(s, Len(s)) \in Whitespace THEN strip(SubSeq(s, 1, Len(s) - 1))
    ELSE s

\* s.split(): the maximal runs of characters that are not whitespace, in order
split(s) ==
    LET Blank(i) == CharAt(s, i) \in Whitespace
        starts   == {i \in 1..Len(s) : ~Blank(i) /\ (i = 1 \/ Blank(i - 1))}
        Start(n) == CHOOSE i \in starts : Cardinality({k \in starts : k < i}) = n - 1
        End(i)   == CHOOSE j \in i..Len(s) :
                        /\ \A k \in i..j : ~Blank(k)
                        /\ (j = Len(s) \/ Blank(j + 1))
    IN  [n \in 1..Cardinality(starts) |-> SubSeq(s, Start(n), End(Start(n)))]

\* ' '.join(words)
RECURSIVE join(_)
join(words) ==
    IF words = <<>> THEN ""
    ELSE IF Len(words) = 1 THEN words[1]
    ELSE words[1] \o " " \o join(Tail(words))

\* s.replace(old, new), old not empty: occurrences from the left, not overlapping
RECURSIVE replace(_, _, _)
replace(s, old, new) ==
    IF Len(s) < Len(old) THEN s
    ELSE IF SubSeq(s, 1, Len(old)) = old
         THEN new \o replace(From(s, Len(old) + 1), old, new)
         ELSE CharAt(s, 1) \o replace(From(s, 2), old, new)

\* set(words)
ToSet(words) == {words[i] : i \in 1..Len(words)}

-----------------------------------------------------------------------------
(* NewsScraper._remove_duplicate_articles *)

\* the title compared as it is written, without lower()
title_of_cased(article) == strip(Get(article, "title", ""))

\* article.get('title', '').lower().strip()
title_of(article) == strip(lower(Get(article, "title", "")))

\* len(set & set) / len(set | set), as the pair <<intersection, union>>
similarity(title, seen_title) ==
    LET words      == ToSet(split(title))
        seen_words == ToSet(split(seen_title))
    IN  <<Cardinality(words \cap seen_words), Cardinality(words \cup seen_words)>>

\* similarity > 0.6
is_similar_above_six_tenths(title, seen_title) ==
    LET ratio == similarity(title, seen_title)
    IN  10 * ratio[1] > 6 * ratio[2]

\* similarity > 0.7
is_similar(title, seen_title) ==
    LET ratio == similarity(title, seen_title)
    IN  10 * ratio[1] > 7 * ratio[2]

\* the for loop: unique_articles and seen_titles after the articles given
RECURSIVE dedup_loop(_)
dedup_loop(articles_) ==
    IF articles_ = <<>> THEN [unique_articles |-> <<>>, seen_titles |-> <<>>]
    ELSE LET before  == dedup_loop(SubSeq(articles_, 1, Len(articles_) - 1))
             article == articles_[Len(articles_)]
             title   == title_of(article)
             is_duplicate == \E i \in 1..Len(before.seen_titles) :
                                 is_similar(title, before.seen_titles[i])
         IN  IF title = "" \/ is_duplicate THEN before
             ELSE [unique_articles |-> Append(before.unique_articles, article),
                   seen_titles     |-> Append(before.seen_titles, title)]

_remove_duplicate_articles(articles_) ==
    IF articles_ = <<>> THEN <<>> ELSE dedup_loop(articles_).unique_articles

-----------------------------------------------------------------------------
(* utils.clean_company_name, utils.extract_company_variants *)

suffixes_to_remove ==
    << " limited", " ltd", " ltd.", " corporation", " corp", " corp.",
       " company", " co", " co.", " inc", " inc.", " llc",
       " private limited", " pvt ltd", " pvt. ltd.",
       " public limited", " plc" >>

\* the for loop of replace calls, suffix after suffix
RECURSIVE remove_suffixes(_, _)
remove_suffixes(name_clean, suffixes) ==
    IF suffixes = <<>> THEN name_clean
    ELSE remove_suffixes(replace(name_clean, Head(suffixes), ""), Tail(suffixes))

\* \w: letters, digits and the underscore
WordCharacters == LowerCase \o UpperCase \o "0123456789_"

\* re.sub(r'[^\w\s]', ' ', s), the two halves of s one after the other
RECURSIVE blank_special(_)
blank_special(s) ==
    IF s = "" THEN ""
    ELSE IF Len(s) = 1
         THEN (IF Contains(WordCharacters, s) \/ s \in Whitespace THEN s ELSE " ")
         ELSE blank_special(SubSeq(s, 1, Len(s) \div 2))
                \o blank_special(From(s, Len(s) \div 2 + 1))

\* re.sub(r'\s+', ' ', s).strip() is ' '.join(s.split())
clean_company_name(name) ==
    join(split(blank_special(remove_suffixes(lower(name), suffixes_to_remove))))

\* ''.join([word[0].upper() for word in words if word])
RECURSIVE acronym_of(_)
acronym_of(words) ==
    IF words = <<>> THEN ""
    ELSE upper(CharAt(Head(words), 1)) \o acronym_of(Tail(words))

\* the list variants as it stands before list(set(variants))
variants_listed(company_name) ==
    LET clean_name == clean_company_name(company_name)
        words      == split(clean_name)
        acronym    == acronym_of(words)
        named      == <<company_name>>
        cleaned    == IF clean_name # "" /\ clean_name # lower(company_name)
                      THEN Append(named, clean_name) ELSE named
        shortened  == IF Len(words) > 1 /\ Len(acronym) > 1
                      THEN Append(cleaned, acronym) ELSE cleaned
    IN  IF Len(words) >= 2
        THEN Append(shortened, join(SubSeq(words, 1, Min(3, Len(words)))))
        ELSE shortened

\* the lists that hold each element of S once
Orderings(S) ==
    {order \in [1..Cardinality(S) -> S] :
        \A i, j \in 1..Cardinality(S) : order[i] = order[j] => i = j}

\* list(set(variants)): the language leaves the order of a set of strings open,
\* so the outcome is any ordering of the distinct variants
extract_company_variants(company_name) == Orderings(ToSet(variants_listed(company_name)))

-----------------------------------------------------------------------------
(* NewsAnalyzer._get_words_around_match, NewsAnalyzer._calculate_match_confidence *)

context_words == <<"company", "limited", "ltd", "corporation", "inc", "announces", "reports">>

common_words == <<"the", "and", "or", "in", "on", "at", "to", "for", "of", "with">>

\* words[start:end] around every word that contains match, position after position
_get_words_around_match(text, match, window) ==
    LET words == split(text)
        RECURSIVE Around(_)
        Around(pos) ==
            IF pos > Len(words) THEN <<>>
            ELSE (IF Contains(words[pos], match)
                  THEN SubSeq(words, Max(1, pos - window), Min(Len(words), pos + window))
                  ELSE <<>>) \o Around(pos + 1)
    IN  Around(1)

\* 0.1 taken off for a context word
_calculate_match_confidence_discounting(text, variant, full_name) ==
    LET text_lower    == lower(text)
        variant_lower == lower(variant)
        words_around_match == _get_words_around_match(text_lower, variant_lower, 10)
    IN  Min((IF Contains(text_lower, variant_lower) THEN 40 ELSE 0)
              + (IF Contains(text_lower, lower(full_name)) THEN 30 ELSE 0)
              - 10 * Cardinality({i \in 1..Len(context_words) :
                                     InList(context_words[i], words_around_match)})
              - (IF InList(variant_lower, common_words) THEN 50 ELSE 0),
            100)

\* a negative sum raised to 0
_calculate_match_confidence_floored(text, variant, full_name) ==
    LET text_lower    == lower(text)
        variant_lower == lower(variant)
        words_around_match == _get_words_around_match(text_lower, variant_lower, 10)
    IN  Max(0, Min((IF Contains(text_lower, variant_lower) THEN 40 ELSE 0)
                     + (IF Contains(text_lower, lower(full_name)) THEN 30 ELSE 0)
                     + 10 * Cardinality({i \in 1..Len(context_words) :
                                            InList(context_words[i], words_around_match)})
                     - (IF InList(variant_lower, common_words) THEN 50 ELSE 0),
                   100))

\* confidence in hundredths
_calculate_match_confidence(text, variant, full_name) ==
    LET text_lower    == lower(text)
        variant_lower == lower(variant)
        words_around_match == _get_words_around_match(text_lower, variant_lower, 10)
    IN  Min((IF Contains(text_lower, variant_lower) THEN 40 ELSE 0)
              + (IF Contains(text_lower, lower(full_name)) THEN 30 ELSE 0)
              + 10 * Cardinality({i \in 1..Len(context_words) :
                                     InList(context_words[i], words_around_match)})
              - (IF InList(variant_lower, common_words) THEN 50 ELSE 0),
            100)

-----------------------------------------------------------------------------
(* NewsAnalyzer.match_companies: the scan of the company table *)

\* the threshold for inclusion reached, not only passed
is_included_at_threshold(confidence) == confidence >= 30

\* confidence > 0.3
is_included(confidence) == confidence > 30

\* the loop left at the first variant found in the text, included or not
RECURSIVE row_candidate_first_hit(_, _, _, _)
row_candidate_first_hit(text, company_name, symbol, variants) ==
    IF variants = <<>> THEN <<>>
    ELSE LET variant == Head(variants)
         IN  IF Len(variant) > 2 /\ Contains(lower(text), lower(variant))
             THEN LET confidence == _calculate_match_confidence(text, variant, company_name)
                  IN  IF is_included(confidence)
                      THEN <<Company(symbol, company_name, variant, confidence)>>
                      ELSE <<>>
             ELSE row_candidate_first_hit(text, company_name, symbol, Tail(variants))

\* the inner for loop over the variants of one row: the candidate appended to
\* matched_companies (a list of one), or nothing
RECURSIVE row_candidate(_, _, _, _)
row_candidate(text, company_name, symbol, variants) ==
    IF variants = <<>> THEN <<>>
    ELSE LET variant == Head(variants)
         IN  IF Len(variant) > 2 /\ Contains(lower(text), lower(variant))
             THEN LET confidence == _calculate_match_confidence(text, variant, company_name)
                  IN  IF is_included(confidence)
                      THEN <<Company(symbol, company_name, variant, confidence)>>
                      ELSE row_candidate(text, company_name, symbol, Tail(variants))
             ELSE row_candidate(text, company_name, symbol, Tail(variants))

\* a cell without a value is NaN in a row of the table
isna(row, key) == key \in Get(row, "isna", {})

\* NaN is not falsy, so a row with a name that is NaN is not skipped, its
\* variants are [nan] and len(variant) raises TypeError
match_companies_raises(rows) == \E i \in 1..Len(rows) : isna(rows[i], "company_name")

\* the lists of variants a row can be scanned with: the variants of its name
\* in one of the orders extract_company_variants may return, and the symbol
\* appended; none for a row that is skipped
row_variants(row) ==
    LET company_name == Get(row, "company_name", "")
        symbol       == Get(row, "symbol", "")
    IN  IF company_name = "" THEN {<<>>}
        ELSE {IF symbol # "" THEN Append(variants, symbol) ELSE variants :
                 variants \in extract_company_variants(company_name)}

\* for the rows of the table in order, the list of variants of each
RECURSIVE variants_tried(_)
variants_tried(rows) ==
    IF rows = <<>> THEN {<<>>}
    ELSE {Append(before, variants) :
             before \in variants_tried(SubSeq(rows, 1, Len(rows) - 1)),
             variants \in row_variants(rows[Len(rows)])}

\* the list matched_companies after the rows given, the variants of row i
\* being tried[i]
RECURSIVE matched_by_scan(_, _, _)
matched_by_scan(text, rows, tried) ==
    IF rows = <<>> THEN <<>>
    ELSE LET row          == rows[Len(rows)]
             company_name == Get(row, "company_name", "")
             symbol       == Get(row, "symbol", "")
         IN  matched_by_scan(text, SubSeq(rows, 1, Len(rows) - 1), tried)
               \o (IF company_name = "" THEN <<>>
                   ELSE row_candidate(text, company_name, symbol, tried[Len(rows)]))

-----------------------------------------------------------------------------
(* utils.extract_numbers_from_text: re.findall over the text, pattern after  *)
(* pattern. A pattern is the character it starts with (none for the numbers *)
(* with a unit), whether the number may hold thousands separators, and the  *)
(* alternatives that may follow the number in the order the expression      *)
(* tries them; IGNORECASE is the text read in lower case. A float is its    *)
(* value in thousandths.                                                     *)

DigitCharacters == {"0", "1", "2", "3", "4", "5", "6", "7", "8", "9"}

\* the position after the longest run of characters of chars from i on
RECURSIVE run_end(_, _, _)
run_end(s, i, chars) ==
    IF i <= Len(s) /\ CharAt(s, i) \in chars THEN run_end(s, i + 1, chars) ELSE i

\* (?:,\d+)* from i on: the position after the last group of a comma and digits
RECURSIVE separated_end(_, _)
separated_end(s, i) ==
    IF i < Len(s) /\ CharAt(s, i) = "," /\ CharAt(s, i + 1) \in DigitCharacters
    THEN separated_end(s, run_end(s, i + 1, DigitCharacters))
    ELSE i

\* (?:\.\d+)? from i on
fraction_end(s, i) ==
    IF i < Len(s) /\ CharAt(s, i) = "." /\ CharAt(s, i + 1) \in DigitCharacters
    THEN run_end(s, i + 1, DigitCharacters)
    ELSE i

number_patterns ==
    << [prefix |-> "", separators |-> FALSE, units |-> <<"crores", "crore", "cr.", "cr">>],
       [prefix |-> "", separators |-> FALSE, units |-> <<"lakhs", "lakh", "lakh">>],
       [prefix |-> "", separators |-> FALSE, units |-> <<"thousands", "thousand", "k">>],
       [prefix |-> "", separators |-> FALSE, units |-> <<"millions", "million", "mn.", "mn">>],
       [prefix |-> "", separators |-> FALSE, units |-> <<"billions", "billion", "bn.", "bn">>],
       [prefix |-> "₹", separators |-> TRUE, units |-> <<"">>],
       [prefix |-> "$", separators |-> TRUE, units |-> <<"">>] >>

\* r'(\d+(?:\.\d+)?)\s*(?:%|percent|per cent)'
percentage_pattern ==
    [prefix |-> "", separators |-> FALSE, units |-> <<"%", "percent", "per cent">>]

\* the match of the pattern that starts at position i of text, if there is
\* one: the captured group and the position after the match
match_at(pattern, text, i) ==
    LET s       == lower(text)
        first   == IF pattern.prefix = "" THEN i
                   ELSE run_end(s, i + 1, Whitespace)
        whole   == run_end(s, first, DigitCharacters)
        grouped == IF pattern.separators THEN separated_end(s, whole) ELSE whole
        last    == fraction_end(s, grouped)
        gap     == IF pattern.prefix = "" THEN run_end(s, last, Whitespace) ELSE last
        Follows(k) == SubSeq(s, gap, gap + Len(pattern.units[k]) - 1) = pattern.units[k]
        follow  == {k \in 1..Len(pattern.units) :
                       gap + Len(pattern.units[k]) - 1 <= Len(s) /\ Follows(k)}
        unit    == pattern.units[CHOOSE k \in follow : \A l \in follow : k <= l]
    IN  IF /\ i <= Len(s)
           /\ (pattern.prefix = "" \/ CharAt(s, i) = pattern.prefix)
           /\ whole > first
           /\ follow # {}
        THEN [found |-> TRUE, group |-> SubSeq(text, first, last - 1), end |-> gap + Len(unit)]
        ELSE [found |-> FALSE]

\* re.findall(pattern, text, re.IGNORECASE): the groups of the matches from
\* the left, a match starting where the one before it ended at the earliest
RECURSIVE findall_from(_, _, _)
findall_from(pattern, text, i) ==
    IF i > Len(text) THEN <<>>
    ELSE LET match == match_at(pattern, text, i)
         IN  IF match.found
             THEN <<match.group>> \o findall_from(pattern, text, match.end)
             ELSE findall_from(pattern, text, i + 1)

findall(pattern, text) == findall_from(pattern, text, 1)

\* int(s) for a string of digits
RECURSIVE int_of(_)
int_of(s) ==
    IF s = "" THEN 0
    ELSE 10 * int_of(SubSeq(s, 1, Len(s) - 1))
           + (CHOOSE d \in 0..9 : CharAt("0123456789", d + 1) = CharAt(s, Len(s)))

\* float(s) in thousandths, for digits with up to three digits after a point
float_of(s) ==
    LET point == run_end(s, 1, DigitCharacters)
    IN  1000 * int_of(SubSeq(s, 1, point - 1))
          + int_of(SubSeq(From(s, point + 1) \o "000", 1, 3))

\* float(match.replace(',', '')); a group is digits, commas and a point, so
\* float does not raise ValueError
float_of_match(match) == float_of(replace(match, ",", ""))

\* the floats of the groups, in the order found
RECURSIVE floats_of(_)
floats_of(matches) ==
    IF matches = <<>> THEN <<>>
    ELSE <<float_of_match(Head(matches))>> \o floats_of(Tail(matches))

RECURSIVE numbers_by(_, _)
numbers_by(patterns, text) ==
    IF patterns = <<>> THEN <<>>
    ELSE floats_of(findall(Head(patterns), text)) \o numbers_by(Tail(patterns), text)

extract_numbers_from_text(text) == numbers_by(number_patterns, text)

\* percentages = [float(p) for p in re.findall(percentage_pattern, text, re.IGNORECASE)]
percentages_of(text) == floats_of(findall(percentage_pattern, text))

-----------------------------------------------------------------------------
(* Functions called on their own: a call is drawn with its arguments, and   *)
(* the step of the function takes it to its result                          *)

MaxScraped == 3        \* longest list handed to _remove_duplicate_articles

Scraped(url, title) == [url |-> url, title |-> title, source |-> "Economic Times"]

\* what a scraper collects for a company: the two headlines of one story, the
\* same story in other case and spacing, another story, and entries without
\* a title
ScrapedArticles ==
    { Scraped("u1", "RIL announces new plant"),
      Scraped("u2", "RIL announces a new plant"),
      Scraped("u3", "TCS wins major deal"),
      Scraped("u4", "  ril ANNOUNCES new   plant today "),
      Scraped("u5", ""),
      Scraped("u6", " \n"),
      [url |-> "u7", source |-> "Mint"] }

RECURSIVE ListsOf(_, _)
ListsOf(S, n) ==
    IF n = 0 THEN {<<>>}
    ELSE LET shorter == ListsOf(S, n - 1)
         IN  shorter \cup {Append(s, x) : s \in {t \in shorter : Len(t) = n - 1}, x \in S}

DedupCalls ==
    {[op |-> "_remove_duplicate_articles", articles |-> scraped] :
        scraped \in ListsOf(ScrapedArticles, MaxScraped)}

CompanyRow(company_name, symbol) == [company_name |-> company_name, symbol |-> symbol]

\* companies_df: the one row of the worked example, and a table with two
\* rows of one symbol, a symbol that is a common word, a row without a name
\* and a row without a symbol
TataTable == << CompanyRow("Tata Consultancy Services", "TCS") >>

MarketTable ==
    << CompanyRow("Infosys", "INFY"),
       CompanyRow("Wipro", "WIPRO"),
       CompanyRow("Reliance Industries Limited", "RIL"),
       CompanyRow("ITC", "ITC"),
       CompanyRow("HDFC", "HDFC"),
       CompanyRow("Maruti", "MSIL"),
       CompanyRow("Reliance", "RIL"),
       CompanyRow("Forge", "FOR"),
       [symbol |-> "NONAME"],
       [company_name |-> "Mint"] >>

TataText == "Tata Consultancy Services Limited reports results"

MarketText ==
    "Infosys Wipro ITC HDFC MSIL and Reliance Industries Limited announces results for the company reports"

\* the texts and tables above, the text with one more context word, texts
\* that name no company, a text and a table for a company whose acronym is a
\* common word, the two rows of one symbol alone, a table with a row
\* that has no name in the file it was read from, the empty table
MatchCalls ==
    {[op |-> "match_companies", text |-> text, companies_df |-> companies_df] :
        text \in { TataText, MarketText,
                   "Infosys Wipro ITC HDFC MSIL and Reliance Industries Limited announces results for the company ltd reports",
                   "Markets closed flat today", "April sales switch to Mint",
                   "Federal Oil Refineries plans for growth", "" },
        companies_df \in { TataTable, MarketTable,
                           << CompanyRow("Federal Oil Refineries", "FEDOIL") >>,
                           SubSeq(MarketTable, 3, 3) \o SubSeq(MarketTable, 7, 7),
                           Append(TataTable, [isna |-> {"company_name"}, symbol |-> "NEWCO"]),
                           <<>> }}

ConfidenceCalls ==
    {[op |-> "_calculate_match_confidence", text |-> text, variant |-> variant,
      full_name |-> full_name] :
        text \in { TataText, MarketText,
                   "Infosys Wipro ITC HDFC MSIL and Reliance Industries Limited announces results for the company ltd reports",
                   "April sales switch to Mint", "For company limited reports", "the",
                   "Reliance Industries Limited gains" },
        variant \in {"Tata Consultancy Services", "TCS", "Reliance", "FOR", "for", "The", "Forge"},
        full_name \in {"Tata Consultancy Services", "Reliance Industries Limited", "Forge", "For"}}

\* keywords_found with 0 to 2 positive and 0 to 2 negative phrases, and with
\* categories missing; sentiment scores in hundredths, on both sides of 0.05
\* and of 0.1
ImpactCalls ==
    {[op |-> "categorize_news_impact", keywords_found |-> keywords_found,
      sentiment_score |-> sentiment_score] :
        keywords_found \in
            { [positive |-> positive, negative |-> negative, neutral |-> <<"results">>] :
                positive \in {<<>>, <<"growth">>, <<"growth", "profit">>},
                negative \in {<<>>, <<"loss">>, <<"loss", "debt">>} }
              \cup {EmptyDict, [negative |-> <<"loss">>]},
        sentiment_score \in {-100, -11, -10, -6, -5, 0, 5, 6, 10, 11, 100}}

MaxSentences == 2      \* most sentences the tokenizer finds in a text

\* the estimator's result: a sentence is its number of words and its
\* polarity, or the estimator fails
SentimentCalls ==
    {[op |-> "analyze_sentiment",
      estimate |-> [ok |-> TRUE, error |-> "", polarity |-> polarity, subjectivity |-> 50,
                    sentences |-> sentences]] :
        polarity \in {-100, -11, -10, 0, 10, 11, 100},
        sentences \in
            ListsOf({ [words |-> 3,  polarity |-> 100], [words |-> 4, polarity |-> 10],
                      [words |-> 4,  polarity |-> 11],  [words |-> 12, polarity |-> -10],
                      [words |-> 5,  polarity |-> -11], [words |-> 7, polarity |-> 0] },
                    MaxSentences)}
      \cup {[op |-> "analyze_sentiment", estimate |-> EstimateFails]}

\* every phrase the extractors look for
Vocabulary ==
    ToSet(init_keywords(INVESTMENT_KEYWORDS).positive)
      \cup ToSet(init_keywords(INVESTMENT_KEYWORDS).negative)
      \cup ToSet(INVESTMENT_KEYWORDS.neutral) \cup ToSet(financial_terms)

\* what the extractors read of a string: len(text), len(text.split()), and
\* the phrases with phrase.lower() in text.lower()
text_of(s) ==
    [len   |-> Len(s),
     words |-> Len(split(s)),
     has   |-> {phrase \in Vocabulary : Contains(lower(s), lower(phrase))}]

\* texts without a word (empty, blanks, a line break), texts with words, and
\* texts with amounts and percentages
DensityCalls ==
    {[op |-> op, text |-> text] :
        op \in {"extract_investment_keywords", "extract_financial_info"},
        text \in { "", "   ", "\n", "profit", "Profit and revenue growth announced",
                   "Strong results: no loss, no debt", TataText, MarketText,
                   "Rs 75,000 crores", "Rs 75000 Crores", "₹ 75,000 crores",
                   "$1,200.50 and 12.5 cr", "up 12.34.56 cr", "5 lakh, 3k, 2.5bn. 3 mn",
                   "profit up 7 % to 2.5 percent", "₹1,00,000 debt, 10 per cent" }}

\* company names with and without legal suffixes, abbreviated and spelled out,
\* with punctuation, and with words that begin like a suffix; and the missing
\* value of a table cell
CleanCalls ==
    {[op |-> "clean_company_name", isna |-> TRUE]} \cup
    {[op |-> "clean_company_name", isna |-> FALSE, name |-> name] :
        name \in { "X Pvt Ltd", "X Private Limited", "X PLC", "ABC Corp.", "Infosys",
                   "Larsen & Toubro", "HDFC Bank", "Coal India",
                   "Reliance Industries Limited", "Tata Motors Ltd.",
                   "Indian Oil Corporation", "Tata Consultancy Services",
                   "Tata Consumer Products", "Bharat Forge Co. Ltd" }}

TextCalls ==
    DedupCalls \cup MatchCalls \cup ConfidenceCalls \cup ImpactCalls
      \cup SentimentCalls \cup DensityCalls \cup CleanCalls

Returns(value) == [raised |-> FALSE, value |-> value]

Raises(exception) == [raised |-> TRUE, value |-> exception]

InitText ==
    /\ lexicon = init_keywords(INVESTMENT_KEYWORDS)
    /\ analyzers = 1
    /\ now = 0
    /\ input = MakeInput(EmptyDict, FieldSetOf(EmptyDict), "", EmptyDict, EstimateFails)
    /\ with_table = TRUE
    /\ pc = "Idle"
    /\ content = EmptyText
    /\ analysis = EmptyDict
    /\ previous = NoCall
    /\ BatchIdle
    /\ call \in TextCalls
    /\ result = NoOperation

pipeline_vars == <<lexicon, analyzers, now, article_vars, batch_vars>>

Called(op) == call.op = op /\ result = NoOperation

\* NewsScraper._remove_duplicate_articles(articles)
RemoveDuplicates ==
    /\ Called("_remove_duplicate_articles")
    /\ result' = Returns(_remove_duplicate_articles(call.articles))
    /\ UNCHANGED <<call, pipeline_vars>>

\* NewsAnalyzer.match_companies(text, companies_df), with the list
\* matched_companies as the scan left it and the variants it went through
MatchCompanies ==
    /\ Called("match_companies")
    /\ IF match_companies_raises(call.companies_df)
       THEN result' = Raises("TypeError")
       ELSE \E tried \in variants_tried(call.companies_df) :
                LET matched == matched_by_scan(call.text, call.companies_df, tried)
                IN  result' = [raised |-> FALSE, value |-> match_companies(matched),
                               matched |-> matched, tried |-> tried]
    /\ UNCHANGED <<call, pipeline_vars>>

\* NewsAnalyzer._calculate_match_confidence(text, variant, full_name)
MatchConfidence ==
    /\ Called("_calculate_match_confidence")
    /\ result' = Returns(_calculate_match_confidence(call.text, call.variant, call.full_name))
    /\ UNCHANGED <<call, pipeline_vars>>

\* utils.clean_company_name(name)
CleanCompanyName ==
    /\ Called("clean_company_name")
    /\ result' = Returns(IF call.isna THEN "" ELSE clean_company_name(call.name))
    /\ UNCHANGED <<call, pipeline_vars>>

\* utils.categorize_news_impact(keywords_found, sentiment_score)
CategorizeImpact ==
    /\ Called("categorize_news_impact")
    /\ result' = Returns(categorize_news_impact(call.keywords_found, call.sentiment_score))
    /\ UNCHANGED <<call, pipeline_vars>>

\* NewsAnalyzer.analyze_sentiment(text), the estimator giving call.estimate
AnalyzeSentiment ==
    /\ Called("analyze_sentiment")
    /\ result' = Returns(analyze_sentiment(call.estimate))
    /\ UNCHANGED <<call, pipeline_vars>>

\* NewsAnalyzer.extract_investment_keywords(text)
ExtractKeywords ==
    /\ Called("extract_investment_keywords")
    /\ result' = Returns(extract_investment_keywords(lexicon, text_of(call.text)))
    /\ UNCHANGED <<call, pipeline_vars>>

\* len(financial_mentions) / len(text.split()) if text else 0 divides by zero
\* for a text that is not empty and has no word
extract_financial_info_raises(text) == Truthy(text) /\ text.words = 0

\* NewsAnalyzer.extract_financial_info(text)
ExtractFinancialInfo ==
    /\ Called("extract_financial_info")
    /\ result' = IF extract_financial_info_raises(text_of(call.text))
                 THEN Raises("ZeroDivisionError")
                 ELSE Returns(extract_financial_info(text_of(call.text),
                                                     extract_numbers_from_text(call.text),
                                                     percentages_of(call.text)))
    /\ UNCHANGED <<call, pipeline_vars>>

NextText ==
    \/ RemoveDuplicates
    \/ MatchCompanies
    \/ MatchConfidence
    \/ CleanCompanyName
    \/ CategorizeImpact
    \/ AnalyzeSentiment
    \/ ExtractKeywords
    \/ ExtractFinancialInfo

SpecText == InitText /\ [][NextText]_vars

-----------------------------------------------------------------------------
(* Properties *)

ScoreKeys == {"investment_score", "impact_category", "relevance_score"}

IdentityKeys == {"article_id", "title", "source", "published_date", "url"}

AfterBatch == {"analyzed", "filtered", "refiltered", "summarized"}

AfterFilter == {"filtered", "refiltered", "summarized"}

ErrorMarked(a) == "error" \in DOMAIN a

\* C1: an Analysis that carries an 'error' field carries none of
\* investment_score, impact_category, relevance_score, whatever set the marker
C1_ErrorCarriesNoScores ==
    \A i \in 1..Len(analyzed) :
        ErrorMarked(analyzed[i]) => (DOMAIN analyzed[i]) \cap ScoreKeys = {}

\* the article at position i of the batch makes analyze_article raise
FailsAt(i) == analyze_article(articles[i], with_table, lexicon, now).raised

\* the article_id the batch gives the record of a failed article
FailedId(article, i) ==
    IF "url" \in DOMAIN article THEN article.url
    ELSE IF "link" \in DOMAIN article THEN article.link
    ELSE "article_" \o ToString(i - 1)

\* C2: batch_analyze_articles returns one Analysis per input article, in input
\* order; the entry of an article whose analysis fails holds article_id, title,
\* source and an error marker and nothing else, and the other articles are
\* analysed all the same
C2_BatchIsolatesFailures ==
    /\ Len(analyzed) <= Len(articles)
    /\ stage \in AfterBatch => Len(analyzed) = Len(articles)
    /\ \A i \in 1..Len(analyzed) :
         LET article == articles[i].article
             a       == analyzed[i]
         IN  IF FailsAt(i)
             THEN /\ DOMAIN a = {"article_id", "title", "source", "error"}
                  /\ a.article_id = FailedId(article, i)
                  /\ a.title = Get(article, "title", EmptyText)
                  /\ a.source = Get(article, "source", "")
             ELSE /\ IdentityKeys \subseteq DOMAIN a
                  /\ a.article_id = Get(article, "url", Get(article, "link", ""))
                  /\ a.title = Get(article, "title", EmptyText)
                  /\ a.source = Get(article, "source", "")
                  /\ \/ ScoreKeys \subseteq DOMAIN a
                     \/ /\ ErrorMarked(a)
                        /\ a.error = "Insufficient content"

\* a full batch whose first article failed and whose last article was scored
C2_Witness ==
    /\ stage = "analyzed"
    /\ Len(analyzed) = MaxBatch
    /\ FailsAt(1)
    /\ DOMAIN analyzed[1] = {"article_id", "title", "source", "error"}
    /\ ~FailsAt(MaxBatch)
    /\ ScoreKeys \subseteq DOMAIN analyzed[MaxBatch]

\* C3: analyze_article ends Rejected or Scored and in no other way; Rejected
\* exactly when the combined content is shorter than 100 characters, with the
\* identity fields and the error marker only; otherwise Scored with
\* content_length and the three scores set
C3_RejectedOrScored ==
    pc \in Terminal =>
        /\ pc \in {"Rejected", "Scored"}
        /\ (pc = "Rejected") <=> (content.len < min_article_length)
        /\ pc = "Rejected" => DOMAIN analysis = IdentityKeys \cup {"error"}
        /\ pc = "Scored" => ({"content_length"} \cup ScoreKeys) \subseteq DOMAIN analysis

\* C4: the investment_score and the relevance_score of a Scored Analysis lie
\* between 0 and 1
C4_ScoresInUnitInterval ==
    pc = "Scored" =>
        /\ 0 <= analysis.investment_score /\ analysis.investment_score <= Unit
        /\ 0 <= analysis.relevance_score /\ analysis.relevance_score <= Unit

\* a Scored article published in the future whose factors add up to more than 1
C4_Witness ==
    /\ pc = "Scored"
    /\ analysis.published_date.kind = "naive"
    /\ analysis.published_date.day > now
    /\ sentiment_weight(analysis) + recency_score(analysis, now) > Unit
    /\ analysis.investment_score = Unit

\* C5: with min_relevance > 0, filter_relevant_articles returns no
\* error-marked Analysis
C5_FilterDropsErrorMarked ==
    (stage \in AfterFilter /\ effective_min_relevance(threshold) > 0) =>
        \A i \in 1..Len(relevant) : ~ErrorMarked(relevant[i])

\* C6: on an empty list, and on a list of error-marked analyses only,
\* generate_summary_insights returns an error marker and nothing else
C6_NothingValidGivesErrorSummary ==
    (stage = "summarized" /\ \A i \in 1..Len(analyzed) : ErrorMarked(analyzed[i])) =>
        DOMAIN summary = {"error"}

\* a summary of two or more analyses, all of them error-marked and one of them
\* carrying scores
C6_Witness ==
    /\ stage = "summarized"
    /\ Len(analyzed) >= 2
    /\ \A i \in 1..Len(analyzed) : ErrorMarked(analyzed[i])
    /\ \E i \in 1..Len(analyzed) : "relevance_score" \in DOMAIN analyzed[i]
    /\ summary = [error |-> "No valid articles found"]

\* C7: two calls of analyze_article with the same article and the same tables
\* end the same way with the same Analysis, whenever they are made
C7_SameArticleSameAnalysis ==
    (pc \in Terminal /\ previous.known) =>
        /\ previous.pc = pc
        /\ previous.value = analysis


\* relevance_score of the i-th analysed article, 0 when it has none
ScoreAt(i) ==
    IF "relevance_score" \in DOMAIN analyzed[i] THEN analyzed[i].relevance_score ELSE 0

\* the min_relevance in force: 0.3 when the argument was left out
MinRelevance == IF threshold.none THEN (3 * Unit) \div 10 ELSE threshold.value

\* the positions of the analyses that are to be kept
Kept == {i \in 1..Len(analyzed) : ScoreAt(i) >= MinRelevance}

\* how many kept analyses come before the i-th: those with a higher score, and
\* those with the same score that stand earlier in the input
Rank(i) ==
    Cardinality({k \in Kept : \/ ScoreAt(k) > ScoreAt(i)
                              \/ (ScoreAt(k) = ScoreAt(i) /\ k < i)})

\* C8: filter_relevant_articles returns exactly the analyses with
\* relevance_score >= min_relevance, by relevance_score descending, equal
\* scores in input order
C8_FilterKeepsAndOrders ==
    stage \in AfterFilter =>
        /\ Len(relevant) = Cardinality(Kept)
        /\ \A i \in Kept : relevant[Rank(i) + 1] = analyzed[i]

\* a filtered list that dropped an analysis, kept one whose score is the
\* threshold itself and kept two different analyses of equal score
C8_Witness ==
    /\ stage = "filtered"
    /\ Len(relevant) < Len(analyzed)
    /\ \E i \in 1..Len(relevant) : RelevanceOf(relevant[i]) = MinRelevance
    /\ \E i \in 1..Len(relevant) - 1 :
          /\ RelevanceOf(relevant[i]) = RelevanceOf(relevant[i + 1])
          /\ relevant[i] # relevant[i + 1]

\* C9: filtering the result of filter_relevant_articles again with the same
\* threshold returns the same list in the same order
C9_FilterIdempotent == stage = "refiltered" => refiltered = relevant

\* a list filtered twice that lost an analysis the first time and holds two
\* different analyses of equal score
C9_Witness ==
    /\ stage = "refiltered"
    /\ Len(relevant) < Len(analyzed)
    /\ \E i \in 1..Len(refiltered) - 1 :
          /\ RelevanceOf(refiltered[i]) = RelevanceOf(refiltered[i + 1])
          /\ refiltered[i] # refiltered[i + 1]

\* the positions of the analyses without an 'error' field
Valid == {i \in 1..Len(analyzed) : ~ErrorMarked(analyzed[i])}

\* the sum of the counts of a distribution
RECURSIVE TotalCount(_)
TotalCount(dist) == IF dist = <<>> THEN 0 ELSE Head(dist).count + TotalCount(Tail(dist))

\* the sum of a score over the error-free analyses
RECURSIVE ValidSum(_, _)
ValidSum(positions, key) ==
    IF positions = {} THEN 0
    ELSE LET i == CHOOSE p \in positions : TRUE
         IN  (IF key \in DOMAIN analyzed[i] THEN analyzed[i][key] ELSE 0)
               + ValidSum(positions \ {i}, key)

\* how often the error-free analyses mention a company symbol
RECURSIVE ValidMentions(_, _)
ValidMentions(positions, symbol) ==
    IF positions = {} THEN 0
    ELSE LET i == CHOOSE p \in positions : TRUE
             companies == IF "matched_companies" \in DOMAIN analyzed[i]
                          THEN analyzed[i].matched_companies ELSE <<>>
         IN  Cardinality({j \in 1..Len(companies) : companies[j].symbol = symbol})
               + ValidMentions(positions \ {i}, symbol)

\* how many error-free analyses found a keyword in a category
ValidFinds(pair) ==
    Cardinality({i \in Valid :
        /\ "keywords_found" \in DOMAIN analyzed[i]
        /\ \E j \in 1..Len(analyzed[i].keywords_found[pair[2]]) :
               analyzed[i].keywords_found[pair[2]][j] = pair[1]})

\* C10: when some analysis is error-free, total_articles is the length of the
\* input, valid_articles the number of error-free analyses, both
\* distributions add up to valid_articles, and the averages, the company
\* counts and the keyword counts are those of the error-free analyses alone
C10_SummaryOverErrorFree ==
    (stage = "summarized" /\ Valid # {}) =>
        /\ ~ErrorMarked(summary)
        /\ summary.total_articles = Len(analyzed)
        /\ summary.valid_articles = Cardinality(Valid)
        /\ TotalCount(summary.sentiment_distribution) = Cardinality(Valid)
        /\ TotalCount(summary.impact_distribution) = Cardinality(Valid)
        /\ \A j \in 1..Len(summary.sentiment_distribution) :
              summary.sentiment_distribution[j].count =
                Cardinality({i \in Valid : analyzed[i].sentiment_label =
                                             summary.sentiment_distribution[j].item})
        /\ \A j \in 1..Len(summary.top_companies_mentioned) :
              summary.top_companies_mentioned[j].count =
                ValidMentions(Valid, summary.top_companies_mentioned[j].item)
        /\ \A j \in 1..Len(summary.top_keywords) :
              summary.top_keywords[j].count = ValidFinds(summary.top_keywords[j].item)
        /\ summary.average_sentiment_score * 100 * Cardinality(Valid)
              - 1000 * ValidSum(Valid, "sentiment_score") \in
                 (0 - 50 * Cardinality(Valid))..(50 * Cardinality(Valid))
        /\ 2 * Abs(summary.average_relevance_score * Unit * Cardinality(Valid)
                     - 1000 * ValidSum(Valid, "relevance_score")) <= Unit * Cardinality(Valid)
        /\ 2 * Abs(summary.average_investment_score * Unit * Cardinality(Valid)
                     - 1000 * ValidSum(Valid, "investment_score")) <= Unit * Cardinality(Valid)

\* a summary over an error-free analysis, an error-marked one that carries
\* scores, keywords and companies, and a failed one
C10_Witness ==
    /\ stage = "summarized"
    /\ Valid # {}
    /\ \E i \in 1..Len(analyzed) :
          /\ ErrorMarked(analyzed[i])
          /\ "relevance_score" \in DOMAIN analyzed[i]
          /\ analyzed[i].relevance_score > 0
          /\ analyzed[i].matched_companies # <<>>
          /\ analyzed[i].total_investment_keywords > 0
    /\ \E i \in 1..Len(analyzed) : DOMAIN analyzed[i] = {"article_id", "title", "source", "error"}
    /\ summary.valid_articles < summary.total_articles

\* the Jaccard similarity of the lower-cased token sets of two titles is above 0.7
TitlesAlike(a, b) ==
    LET A == ToSet(split(lower(Get(a, "title", ""))))
        B == ToSet(split(lower(Get(b, "title", ""))))
    IN  10 * Cardinality(A \cap B) > 7 * Cardinality(A \cup B)

\* the elements of s at the positions K, in order
RECURSIVE Pick(_, _, _)
Pick(s, K, i) ==
    IF i > Len(s) THEN <<>>
    ELSE (IF i \in K THEN <<s[i]>> ELSE <<>>) \o Pick(s, K, i + 1)

\* C11: the result of _remove_duplicate_articles is a subsequence of its
\* input from which every article is missing whose title is more than 0.7
\* alike to the title of an article kept before it, so that no two articles of
\* the result have titles more than 0.7 alike; of 'RIL announces new plant'
\* and 'RIL announces a new plant' the first is kept alone, and 'RIL
\* announces new plant' and 'TCS wins major deal' are both kept
C11_DedupKeepsUnlikeTitles ==
    (call.op = "_remove_duplicate_articles" /\ result # NoOperation) =>
        LET given == call.articles
            kept  == result.value
        IN  /\ ~result.raised
            /\ \E K \in SUBSET (1..Len(given)) :
                 /\ kept = Pick(given, K, 1)
                 /\ \A i \in 1..Len(given) :
                      (\E j \in K : j < i /\ TitlesAlike(given[i], given[j])) => i \notin K
            /\ \A i, j \in 1..Len(kept) : i # j => ~TitlesAlike(kept[i], kept[j])
            /\ given = <<Scraped("u1", "RIL announces new plant"),
                         Scraped("u2", "RIL announces a new plant")>>
                 => kept = <<Scraped("u1", "RIL announces new plant")>>
            /\ given = <<Scraped("u1", "RIL announces new plant"),
                         Scraped("u3", "TCS wins major deal")>>
                 => kept = given

\* a call that dropped the respelling of a story and kept the story and
\* another one
C11_Witness ==
    /\ call.op = "_remove_duplicate_articles"
    /\ result # NoOperation
    /\ call.articles = <<Scraped("u1", "RIL announces new plant"),
                         Scraped("u4", "  ril ANNOUNCES new   plant today "),
                         Scraped("u3", "TCS wins major deal")>>
    /\ result.value = <<Scraped("u1", "RIL announces new plant"),
                        Scraped("u3", "TCS wins major deal")>>

Done(op) == call.op = op /\ result # NoOperation

\* match_companies has returned
Scanned == Done("match_companies") /\ ~result.raised

\* C12: the result of match_companies holds at most 5 matches, one match at
\* most for a symbol and that one a candidate of the highest confidence among
\* the symbol's candidates, by confidence descending, every confidence between
\* 0 and 1, and company_count is the number of different symbols among the
\* candidates, which is at least the number of matches returned
C12_MatchesTopFiveBySymbol ==
    Scanned =>
        LET companies  == result.value.matched_companies
            candidates == ToSet(result.matched)
        IN  /\ Len(companies) <= 5
            /\ \A i, j \in 1..Len(companies) :
                  companies[i].symbol = companies[j].symbol => i = j
            /\ \A i \in 1..Len(companies) :
                  /\ companies[i] \in candidates
                  /\ \A c \in candidates :
                        c.symbol = companies[i].symbol
                           => c.confidence <= companies[i].confidence
                  /\ 0 <= companies[i].confidence
                  /\ companies[i].confidence <= 100
            /\ \A i \in 1..(Len(companies) - 1) :
                  companies[i].confidence >= companies[i + 1].confidence
            /\ result.value.company_count = Cardinality({c.symbol : c \in candidates})
            /\ result.value.company_count >= Len(companies)

\* a scan that left candidates for more than 5 symbols, two of them for one
\* symbol with the lower confidence first
C12_Witness ==
    /\ Scanned
    /\ result.value.company_count > 5
    /\ Len(result.value.matched_companies) = 5
    /\ \E i, j \in 1..Len(result.matched) :
          /\ i < j
          /\ result.matched[i].symbol = result.matched[j].symbol
          /\ result.matched[i].confidence < result.matched[j].confidence

\* the variants of a row the scan may come to judge: the variants of the name
\* and the symbol, longer than 2 characters and contained in the text
Occurring(text, row) ==
    {variant \in ToSet(variants_listed(row.company_name))
                   \cup (IF Get(row, "symbol", "") # "" THEN {row.symbol} ELSE {}) :
        Len(variant) > 2 /\ Contains(lower(text), lower(variant))}

\* the rows of the table that have a name
NamedRows == {i \in 1..Len(call.companies_df) : Get(call.companies_df[i], "company_name", "") # ""}

\* the scan added a candidate for the row
HasCandidate(row) ==
    \E i \in 1..Len(result.matched) :
        /\ result.matched[i].company_name = row.company_name
        /\ result.matched[i].symbol = Get(row, "symbol", "")

Matches(keywords_found, category) ==
    IF category \in DOMAIN keywords_found THEN Len(keywords_found[category]) ELSE 0

\* C14: with P positive and N negative matches, categorize_news_impact gives
\* 'Highly Positive' for P > N and sentiment > 0.1; otherwise 'Positive' for
\* P > 0 and sentiment > 0.05; otherwise 'Highly Negative' for N > P and
\* sentiment < -0.1; otherwise 'Negative' for N > 0 and sentiment < -0.05;
\* otherwise 'Neutral'; so N > P > 0 with sentiment > 0.05 gives 'Positive'
C14_ImpactByFirstBranch ==
    Done("categorize_news_impact") =>
        LET P == Matches(call.keywords_found, "positive")
            N == Matches(call.keywords_found, "negative")
            s == call.sentiment_score
            HighlyPositive == P > N /\ s > 10
            Positive       == ~HighlyPositive /\ P > 0 /\ s > 5
            HighlyNegative == ~HighlyPositive /\ ~Positive /\ N > P /\ s < -10
            Negative       == ~HighlyPositive /\ ~Positive /\ ~HighlyNegative
                                /\ N > 0 /\ s < -5
        IN  /\ ~result.raised
            /\ (result.value = "Highly Positive") <=> HighlyPositive
            /\ (result.value = "Positive") <=> Positive
            /\ (result.value = "Highly Negative") <=> HighlyNegative
            /\ (result.value = "Negative") <=> Negative
            /\ (result.value = "Neutral") <=>
                  ~(HighlyPositive \/ Positive \/ HighlyNegative \/ Negative)
            /\ (N > P /\ P > 0 /\ s > 5) => result.value = "Positive"

\* a call with more negative than positive matches, a positive match and a
\* sentiment above 0.1, answered 'Positive'
C14_Witness ==
    /\ Done("categorize_news_impact")
    /\ Matches(call.keywords_found, "negative") > Matches(call.keywords_found, "positive")
    /\ Matches(call.keywords_found, "positive") > 0
    /\ call.sentiment_score > 10
    /\ result.value = "Positive"

\* the sentences of more than 3 words whose polarity lies in a set
Scored(sentences, polarities) ==
    Cardinality({i \in 1..Len(sentences) :
                    sentences[i].words > 3 /\ sentences[i].polarity \in polarities})

\* C15: the label is 'Positive' for a polarity above 0.1, 'Negative' for one
\* below -0.1 and 'Neutral' for any other, 0.1 and -0.1 included; the sentence
\* counts take the sentences of more than 3 words by the same thresholds, and
\* the three counts add up to the number of sentences of more than 3 words
C15_LabelAndCountsByThreshold ==
    (Done("analyze_sentiment") /\ call.estimate.ok) =>
        LET polarity  == call.estimate.polarity
            sentences == call.estimate.sentences
            value     == result.value
        IN  /\ ~result.raised
            /\ value.sentiment_label =
                  (CASE polarity > 10  -> "Positive"
                     [] polarity < -10 -> "Negative"
                     [] OTHER          -> "Neutral")
            /\ value.positive_sentences = Scored(sentences, 11..100)
            /\ value.negative_sentences = Scored(sentences, (-100)..(-11))
            /\ value.neutral_sentences = Scored(sentences, (-10)..10)
            /\ value.positive_sentences + value.negative_sentences + value.neutral_sentences
                  = Scored(sentences, (-100)..100)
            /\ Len(value.sentence_sentiments) = Scored(sentences, (-100)..100)

\* a text of polarity exactly 0.1 labelled 'Neutral', with a sentence of 3
\* words left out and a sentence of polarity exactly 0.1 counted as neutral
C15_Witness ==
    /\ Done("analyze_sentiment")
    /\ call.estimate.ok
    /\ call.estimate.polarity = 10
    /\ result.value.sentiment_label = "Neutral"
    /\ call.estimate.sentences = << [words |-> 3, polarity |-> 100],
                                    [words |-> 4, polarity |-> 10] >>
    /\ result.value.positive_sentences = 0
    /\ result.value.neutral_sentences = 1

ExtractionKeys ==
    {"keywords_found", "keyword_density", "total_investment_keywords",
     "financial_numbers", "percentages_mentioned", "financial_terms", "financial_density"}

\* C16: when the estimator fails on the text, the Analysis holds polarity 0,
\* subjectivity 0, the label 'Neutral' and the estimator's error as marker;
\* the keywords, the financial terms and (with a company table) the companies
\* are extracted from the text all the same, and the estimator's exception
\* is not what analyze_article raises
C16_SentimentFailureRecovered ==
    ~input.estimate.ok =>
        /\ pc \in {"SignalsComputed", "Scored"} =>
              /\ "error" \in DOMAIN analysis
              /\ analysis.error = input.estimate.error
              /\ analysis.sentiment_score = 0
              /\ analysis.sentiment_subjectivity = 0
              /\ analysis.sentiment_label = "Neutral"
              /\ ExtractionKeys \subseteq DOMAIN analysis
              /\ \A category \in DOMAIN lexicon :
                    ToSet(analysis.keywords_found[category])
                       = ToSet(lexicon[category]) \cap content.has
              /\ ToSet(analysis.financial_terms) = ToSet(financial_terms) \cap content.has
              /\ analysis.financial_numbers = input.numbers
              /\ with_table <=> {"matched_companies", "company_count"} \subseteq DOMAIN analysis
              /\ with_table =>
                    analysis.company_count
                       = Cardinality({input.matched[i].symbol : i \in 1..Len(input.matched)})
        /\ pc = "Raised" => analysis.error # input.estimate.error

\* an article on which the estimator failed, Scored with keywords, financial
\* terms and companies found
C16_Witness ==
    /\ ~input.estimate.ok
    /\ pc = "Scored"
    /\ with_table
    /\ analysis.error = "LookupError"
    /\ analysis.total_investment_keywords > 0
    /\ analysis.financial_terms # <<>>
    /\ analysis.company_count > 5

\* the sum the investment score is the cap of, from the fields of an Analysis
\* on a given day
InvestmentSum(a, today) ==
    LET P == Len(a.keywords_found.positive)
        N == Len(a.keywords_found.negative)
        Z == Len(a.keywords_found.neutral)
        keywords == (P + N) * (Unit \div 10) + Z * (Unit \div 20)
        since    == today - a.published_date.day
        recency  == IF a.published_date.kind = "none" THEN 0
                    ELSE IF since >= 7 THEN 0
                    ELSE ((7 - since) * 2 * Unit) \div 70
        trusted  == \E i \in 1..Len(credible_sources) :
                       Contains(lower(a.source), credible_sources[i])
    IN  (IF a.sentiment_score < 0 THEN 0 - a.sentiment_score ELSE a.sentiment_score)
            * ((4 * Unit) \div 1000)
          + (IF keywords > (3 * Unit) \div 10 THEN (3 * Unit) \div 10 ELSE keywords)
          + recency
          + (IF trusted THEN Unit \div 10 ELSE 0)

\* C17: the investment score an article is Scored with is the smaller of 1 and
\* |sentiment| * 0.4 + min(0.3, 0.1 * (positive + negative) + 0.05 * neutral)
\* + recency + source, recency being max(0, (7 - days since published) / 7)
\* * 0.2 with a publish date and 0 without, source being 0.1 for a source
\* name that contains a trusted name in any case and 0 otherwise
C17_InvestmentScoreFormula ==
    [][(pc' = "Scored" /\ pc # "Scored") =>
          analysis'.investment_score =
             (IF InvestmentSum(analysis', now) > Unit THEN Unit
              ELSE InvestmentSum(analysis', now))]_vars

\* an article from a trusted source, published 30 days ago, Scored with one
\* positive and one neutral keyword below the cap of 0.3
C17_Witness ==
    /\ pc = "Scored"
    /\ analysis.source = "Economic Times"
    /\ analysis.published_date = NaiveDate(-30)
    /\ Len(analysis.keywords_found.positive) = 1
    /\ Len(analysis.keywords_found.negative) = 0
    /\ Len(analysis.keywords_found.neutral) = 1
    /\ analysis.sentiment_score = -6
    /\ analysis.investment_score = (6 * 4 * Unit) \div 1000 + (15 * Unit) \div 100 + Unit \div 10

\* the sum the relevance score is the cap of, from the fields of an Analysis
RelevanceSum(a, company_count) ==
    LET keywords  == a.total_investment_keywords * ((5 * Unit) \div 100)
        companies == company_count * (Unit \div 10)
        length    == IF a.content_length > 1000 THEN 1000 ELSE a.content_length
    IN  (IF keywords > (3 * Unit) \div 10 THEN (3 * Unit) \div 10 ELSE keywords)
          + (IF a.sentiment_score < 0 THEN 0 - a.sentiment_score ELSE a.sentiment_score)
               * ((25 * Unit) \div 10000)
          + (IF companies > (2 * Unit) \div 10 THEN (2 * Unit) \div 10 ELSE companies)
          + (a.financial_density[1] * 15 * Unit) \div (100 * a.financial_density[2])
          + (length * Unit) \div 10000

\* C18: the relevance score an article is Scored with is the smaller of 1 and
\* min(keywords * 0.05, 0.3) + |sentiment| * 0.25 + min(companies * 0.1, 0.2)
\* + financial_density * 0.15 + min(length / 1000, 1.0) * 0.1, the companies
\* counted as 0 without a company table; it has a field of its own beside
\* investment_score and stays the same when the investment score of the same
\* article changes
C18_RelevanceScoreFormula ==
    pc = "Scored" =>
        /\ {"relevance_score", "investment_score"} \subseteq DOMAIN analysis
        /\ with_table <=> "company_count" \in DOMAIN analysis
        /\ LET sum == RelevanceSum(analysis,
                                   IF with_table THEN analysis.company_count ELSE 0)
           IN  analysis.relevance_score = IF sum > Unit THEN Unit ELSE sum
        /\ (previous.known /\ previous.pc = "Scored") =>
              previous.value.relevance_score = analysis.relevance_score

\* an article analysed without a company table on two days: another
\* investment score the second time, the same relevance score
C18_Witness ==
    /\ pc = "Scored"
    /\ ~with_table
    /\ previous.known
    /\ previous.pc = "Scored"
    /\ previous.value.investment_score # analysis.investment_score
    /\ previous.value.relevance_score = analysis.relevance_score
    /\ analysis.relevance_score > 0
    /\ analysis.sentiment_score # 0

\* the context words that stand within 10 words of a word containing the variant
SatisfiedContext(text, variant) ==
    LET words == split(text)
    IN  {word \in ToSet(context_words) :
            \E p, q \in 1..Len(words) :
                /\ Contains(words[p], variant)
                /\ q >= p - 10 /\ q <= p + 10
                /\ words[q] = word}

\* C19: _calculate_match_confidence returns the smaller of 1.0 and the sum of
\* 0.4 when the variant is in the text, 0.3 when the full company name as
\* given is in the text, 0.1 for every satisfied context word, and -0.5 when
\* the variant is a stop word, a negative sum returned as it is; and for
\* 'Tata Consultancy Services' with symbol 'TCS' match_companies finds in
\* 'Tata Consultancy Services Limited reports results' a match with symbol
\* 'TCS' and a confidence of at least 0.7
C19_ConfidenceIsCappedSum ==
    /\ Done("_calculate_match_confidence") =>
          LET text    == lower(call.text)
              variant == lower(call.variant)
              sum     == (IF Contains(text, variant) THEN 40 ELSE 0)
                           + (IF Contains(text, lower(call.full_name)) THEN 30 ELSE 0)
                           + 10 * Cardinality(SatisfiedContext(text, variant))
                           - (IF variant \in ToSet(common_words) THEN 50 ELSE 0)
          IN  /\ ~result.raised
              /\ result.value = IF sum > 100 THEN 100 ELSE sum
    /\ (Done("match_companies") /\ call.text = TataText /\ call.companies_df = TataTable) =>
          \E i \in 1..Len(result.value.matched_companies) :
              /\ result.value.matched_companies[i].symbol = "TCS"
              /\ result.value.matched_companies[i].confidence >= 70

\* a call for a variant that is a stop word, found in the text, with a
\* negative confidence returned
C19_Witness ==
    /\ Done("_calculate_match_confidence")
    /\ lower(call.variant) \in ToSet(common_words)
    /\ Contains(lower(call.text), lower(call.variant))
    /\ result.value < 0

\* C20: extract_investment_keywords and extract_financial_info return, for
\* any text and without raising, a keyword_density and a financial_density of
\* 0 or more, and of 0 when the text has no word
C20_DensitiesDefined ==
    \A op \in {"extract_investment_keywords", "extract_financial_info"} :
        Done(op) =>
            /\ ~result.raised
            /\ LET density == IF op = "extract_investment_keywords"
                              THEN result.value.keyword_density
                              ELSE result.value.financial_density
               IN  /\ density[2] > 0
                   /\ density[1] >= 0
                   /\ Len(split(call.text)) = 0 => density[1] = 0

\* the amounts written in the texts, each with the value it stands for in
\* thousandths
AmountsWritten ==
    { <<"Rs 75,000 crores", 75000000>>, <<"Rs 75000 Crores", 75000000>>,
      <<"₹ 75,000 crores", 75000000>>, <<"$1,200.50 and 12.5 cr", 1200500>>,
      <<"$1,200.50 and 12.5 cr", 12500>>, <<"₹1,00,000 debt, 10 per cent", 100000000>> }

\* C21: the financial_numbers extracted from a text hold every amount
\* written in it, with a unit after it or a currency sign before it, as the
\* float of its digits without the thousands separators; those of 'Rs 75,000
\* crores' hold 75000.0
C21_NumbersWithoutSeparators ==
    (Done("extract_financial_info") /\ ~result.raised) =>
        \A amount \in AmountsWritten :
            call.text = amount[1] => InList(amount[2], result.value.financial_numbers)

\* an analyzer has read the lexicon for the text of an article
LexiconUsed ==
    \/ pc \in {"SignalsComputed", "Scored", "Raised"}
    \/ (previous.known /\ previous.pc \in {"Scored", "Raised"})

\* C22: once an analyzer has analysed a text, no step changes the lists of
\* positive, negative and neutral keywords of the shared lexicon, the
\* construction of another analyzer included
C22_LexiconReadOnlyAfterUse ==
    [][LexiconUsed => lexicon' = lexicon]_vars

\* the calls for the variant and name of the call at hand on a text in which
\* the variant and the name are found or missing as in its own text, and
\* which holds every context word satisfied in its own text
WithContextAdded ==
    {other \in ConfidenceCalls :
        /\ other.variant = call.variant
        /\ other.full_name = call.full_name
        /\ Contains(lower(other.text), lower(call.variant))
              <=> Contains(lower(call.text), lower(call.variant))
        /\ Contains(lower(other.text), lower(call.full_name))
              <=> Contains(lower(call.text), lower(call.full_name))
        /\ SatisfiedContext(lower(call.text), lower(call.variant))
              \subseteq SatisfiedContext(lower(other.text), lower(call.variant))}

\* C23: with the variant and the bonuses for the variant and the full name
\* the same, the confidence on a text is at most the confidence on any text
\* around whose variant the same context words and possibly more are found
C23_ConfidenceMonotoneInContext ==
    Done("_calculate_match_confidence") =>
        \A other \in WithContextAdded :
            result.value <= _calculate_match_confidence(other.text, other.variant,
                                                        other.full_name)

\* a call beside which another text satisfies more context words and gets a
\* higher confidence, and a third satisfies more still and gets the same, at
\* the cap
C23_Witness ==
    /\ Done("_calculate_match_confidence")
    /\ \E other \in WithContextAdded :
          /\ SatisfiedContext(lower(call.text), lower(call.variant))
                # SatisfiedContext(lower(other.text), lower(call.variant))
          /\ result.value < _calculate_match_confidence(other.text, other.variant,
                                                        other.full_name)
          /\ \E third \in WithContextAdded :
                /\ SatisfiedContext(lower(other.text), lower(call.variant))
                      # SatisfiedContext(lower(third.text), lower(call.variant))
                /\ SatisfiedContext(lower(other.text), lower(call.variant))
                      \subseteq SatisfiedContext(lower(third.text), lower(call.variant))
                /\ _calculate_match_confidence(third.text, third.variant, third.full_name)
                      = 100
                /\ _calculate_match_confidence(other.text, other.variant, other.full_name)
                      = 100

\* the variant is one the scan judges: longer than 2 characters and contained
\* in the text
Occurs(text, variant) == Len(variant) > 2 /\ Contains(lower(text), lower(variant))

\* the candidates the scan added for the row
CandidatesOf(row) ==
    {c \in ToSet(result.matched) :
        c.company_name = row.company_name /\ c.symbol = Get(row, "symbol", "")}

\* the smallest number of a set of numbers that is not empty
First(S) == CHOOSE k \in S : \A l \in S : k <= l

\* C24, as the claim has it: for each company the scan ends at the first
\* variant that occurs in the text, whatever its confidence: the company gets
\* a match for that variant when its confidence is above the threshold and no
\* match at all otherwise
C24_StopsAtFirstHit ==
    Scanned =>
        \A i \in NamedRows :
            LET row      == call.companies_df[i]
                variants == result.tried[i]
                hits     == {k \in 1..Len(variants) : Occurs(call.text, variants[k])}
                variant  == variants[First(hits)]
                confidence == _calculate_match_confidence(call.text, variant, row.company_name)
            IN  hits # {} =>
                  CandidatesOf(row) =
                     IF confidence > 30
                     THEN {Company(Get(row, "symbol", ""), row.company_name, variant, confidence)}
                     ELSE {}

\* the variants of row i, in the order tried, that occur in the text with a
\* confidence above 0.3
IncludedAt(i) ==
    {k \in 1..Len(result.tried[i]) :
        /\ Occurs(call.text, result.tried[i][k])
        /\ _calculate_match_confidence(call.text, result.tried[i][k],
                                       call.companies_df[i].company_name) > 30}

\* C24, amended: for each company the scan ends at the first variant that
\* occurs in the text with a confidence above 0.3; a variant that occurs with
\* a confidence of 0.3 or less is passed over and the variants after it are
\* judged; the company gets one match, for that first variant, or none
C24_StopsAtFirstIncluded ==
    Scanned =>
        \A i \in NamedRows :
            LET row      == call.companies_df[i]
                variant  == result.tried[i][First(IncludedAt(i))]
            IN  /\ Cardinality({j \in 1..Len(result.matched) :
                                   result.matched[j] \in CandidatesOf(row)}) <= 1
                /\ CandidatesOf(row) =
                     IF IncludedAt(i) = {} THEN {}
                     ELSE {Company(Get(row, "symbol", ""), row.company_name, variant,
                                   _calculate_match_confidence(call.text, variant,
                                                               row.company_name))}

\* a scan that came to a variant in the text with a confidence of 0.3 or
\* less, went on, and added a match for a later variant of the same company,
\* with a further variant in the text left after it
C24_Witness ==
    /\ Scanned
    /\ \E i \in NamedRows :
          LET variants == result.tried[i]
              hits     == {k \in 1..Len(variants) : Occurs(call.text, variants[k])}
          IN  /\ IncludedAt(i) # {}
              /\ First(hits) < First(IncludedAt(i))
              /\ \E k \in hits : k > First(IncludedAt(i))
              /\ CandidatesOf(call.companies_df[i]) # {}

\* the variants of a row in the order literal name, cleaned form, acronym,
\* partial name, symbol, each once
InDocumentedOrder(row) ==
    LET variants == Distinct(variants_listed(row.company_name))
    IN  IF Get(row, "symbol", "") # "" THEN Append(variants, row.symbol) ELSE variants

\* C25: for every company the variants are tried in the order literal name,
\* cleaned form, acronym, partial name, symbol, and the matched_variant of
\* its match is the earliest variant in that order that occurs in the text
\* with a confidence that includes it
C25_VariantsInDocumentedOrder ==
    Scanned =>
        \A i \in NamedRows :
            LET row      == call.companies_df[i]
                variants == InDocumentedOrder(row)
                included == {k \in 1..Len(variants) :
                               /\ Occurs(call.text, variants[k])
                               /\ _calculate_match_confidence(call.text, variants[k],
                                                              row.company_name) > 30}
            IN  \A c \in CandidatesOf(row) : c.matched_variant = variants[First(included)]

\* the words from the p-th to the q-th with one space between them
WordsJoined(words, p, q) == join(SubSeq(words, p, q))

\* the context words that stand within 10 words before or after a run of
\* words in which the variant occurs, the variant being one word or several
ContextNearOccurrence(text, variant) ==
    LET words == split(text)
    IN  {word \in ToSet(context_words) :
            \E p, q \in 1..Len(words) :
                /\ p <= q
                /\ Contains(WordsJoined(words, p, q), variant)
                /\ \E k \in 1..Len(words) :
                      /\ k >= p - 10 /\ k <= q + 10
                      /\ words[k] = word}

\* C26: for a variant that occurs in the text, of one word or of several,
\* every context word within 10 words before or after an occurrence of the
\* variant adds 0.1 to the confidence: the confidence is the smaller of 1.0
\* and 0.4, plus 0.3 when the full name is in the text, plus 0.1 for each
\* such context word, minus 0.5 when the variant is a stop word
C26_ContextBonusWhateverWords ==
    (Done("_calculate_match_confidence")
        /\ Contains(lower(call.text), lower(call.variant))) =>
        LET text    == lower(call.text)
            variant == lower(call.variant)
            sum     == 40
                         + (IF Contains(text, lower(call.full_name)) THEN 30 ELSE 0)
                         + 10 * Cardinality(ContextNearOccurrence(text, variant))
                         - (IF variant \in ToSet(common_words) THEN 50 ELSE 0)
        IN  result.value = IF sum > 100 THEN 100 ELSE sum
\* the words the legal suffixes are made of
LegalSuffixWords ==
    {"limited", "ltd", "corporation", "corp", "company", "co", "inc", "llc",
     "private", "pvt", "public", "plc"}

\* the name in lower case, punctuation turned into spaces, one space between
\* the words
Normalised(name) == split(blank_special(lower(name)))

\* the words without the legal-suffix words that end the name
RECURSIVE WithoutLegalSuffix(_)
WithoutLegalSuffix(words) ==
    IF words # <<>> /\ words[Len(words)] \in LegalSuffixWords
    THEN WithoutLegalSuffix(SubSeq(words, 1, Len(words) - 1))
    ELSE words

\* C27: clean_company_name returns the name in lower case, punctuation
\* turned into single spaces, without the legal suffix that ends it and with
\* every other word as it was: a name without a legal-suffix word comes back
\* changed in case and punctuation only, and 'X Pvt Ltd' comes back as 'x'
C27_OnlyLegalSuffixesStripped ==
    (Done("clean_company_name") /\ ~call.isna) =>
        /\ ~result.raised
        /\ result.value = join(WithoutLegalSuffix(Normalised(call.name)))
        /\ ToSet(Normalised(call.name)) \cap LegalSuffixWords = {}
              => result.value = join(Normalised(call.name))
        /\ call.name = "X Pvt Ltd" => result.value = "x"
\* C28: in the investment score of an article each factor adds its weight at
\* most before the sum is capped: the sentiment 0.4, the keywords 0.3, the
\* recency 0.2 and the source 0.1, also for a publish date that lies ahead
C28_FactorsWithinWeights ==
    [][(pc' = "Scored" /\ pc # "Scored") =>
          /\ sentiment_weight(analysis) <= (4 * Unit) \div 10
          /\ Min(keyword_score(analysis), (3 * Unit) \div 10) <= (3 * Unit) \div 10
          /\ recency_score(analysis, now) <= (2 * Unit) \div 10
          /\ source_score(analysis) <= Unit \div 10]_vars

\* the article has no title text: no title, an empty one or white space only
Untitled(article) == split(Get(article, "title", "")) = <<>>

PhrasesOf(category) == ToSet(init_keywords(INVESTMENT_KEYWORDS)[category])

\* C30: the keywords extracted from a text are the same whatever the number
\* of analyzers constructed before: each category of keywords_found holds the
\* phrases of the category that the text contains, each once,
\* total_investment_keywords is their number and keyword_density their number
\* by the number of words; and an article analysed again has the same three
\* values as before
C30_KeywordsWhateverAnalyzers ==
    pc \in {"SignalsComputed", "Scored"} =>
        LET found == analysis.keywords_found
            total == Cardinality(PhrasesOf("positive") \cap content.has)
                       + Cardinality(PhrasesOf("negative") \cap content.has)
                       + Cardinality(PhrasesOf("neutral") \cap content.has)
        IN  /\ \A category \in {"positive", "negative", "neutral"} :
                  /\ ToSet(found[category]) = PhrasesOf(category) \cap content.has
                  /\ Len(found[category]) = Cardinality(ToSet(found[category]))
            /\ analysis.total_investment_keywords = total
            /\ analysis.keyword_density = IF content.words > 0 THEN <<total, content.words>>
                                          ELSE <<0, 1>>
            /\ (previous.known /\ previous.pc = "Scored") =>
                  /\ \A category \in {"positive", "negative", "neutral"} :
                        ToSet(previous.value.keywords_found[category]) = ToSet(found[category])
                  /\ previous.value.total_investment_keywords = analysis.total_investment_keywords
                  /\ previous.value.keyword_density = analysis.keyword_density

\* an article analysed after a further analyzer was constructed, the lexicon
\* holding its added phrases more than once, with one of them found
C30_Witness ==
    /\ pc = "SignalsComputed"
    /\ analyzers > 1
    /\ lexicon # init_keywords(INVESTMENT_KEYWORDS)
    /\ previous.known
    /\ previous.pc = "Scored"
    /\ InList("boost", analysis.keywords_found.positive)
    /\ analysis.total_investment_keywords > 1


====
